---- MODULE Spec2Model ----
(***************************************************************************)
(* repopatch: the content resolver (public/js/fileContent.js), the fetch   *)
(* transport with scheme fallback (public/js/connection.js) and the parts  *)
(* of the patcher (public/js/patcher.js) that touch the shared FailureSet. *)
(*                                                                         *)
(* Strings are modelled as sequences of tokens.  A token is a piece of     *)
(* text that the code never looks inside; the pieces the code does look    *)
(* for are tokens of their own: the separators "/" and "\", the scheme     *)
(* "https://", and the text "not found" (every occurrence of it in a       *)
(* message is its own token, so String.includes("not found") is a search   *)
(* for that token).                                                        *)
(***************************************************************************)
EXTENDS Integers, Sequences, FiniteSets, TLC

VARIABLES directories, baseEndpoint, uploadedFiles, failedFiles, calls, lastReturn

\* the tree under construction in buildTreeFromZip / buildTreeFromFolder and
\* the last call of addToTree on it
VARIABLES tree, treeLast

\* the state of the content resolver and of its transport
resolverVars == <<baseEndpoint, uploadedFiles, failedFiles, calls, lastReturn>>

\* the state of the tree builder
treeVars == <<tree, treeLast>>

\* state.selectedDirectoryId, state.patchContent, the value of the patch
\* textarea, whether a debounced preview is pending, the apply status element,
\* the disabled flag of the Apply button, and the applyPatch call in flight
VARIABLES selectedDirectoryId, patchContent, patchInput, debounceTimer,
          applyStatus, applyButtonDisabled, apply

\* what localStorage and the appState store hold, the start-up phase, the
\* value of Date.now(), the asynchronous handlers in flight, and the last
\* handler that touched the registry
VARIABLES storage, phase, clock, tasks, regLast

\* the state of the Apply button, its status line and the patch input
applyVars == <<patchContent, patchInput, debounceTimer, applyStatus,
               applyButtonDisabled, apply>>

\* the state of the source registry besides the list and the selection
registryVars == <<storage, phase, clock, tasks, regLast>>

\* the preview status element, the blocks of the rendered preview, the calls
\* of generatePatchPreview that await the resolver, the last part of such a
\* call that ran, and the time since the debounced preview was last triggered
VARIABLES previewStatus, patchPreview, cycles, previewLast, quiet

\* the state of the preview
previewVars == <<previewStatus, patchPreview, cycles, previewLast, quiet>>

vars == <<directories, selectedDirectoryId, resolverVars, treeVars, applyVars,
          registryVars, previewVars>>

----------------------------------------------------------------------------
(* Bounds                                                                  *)

\* longest list of requested paths handed to one resolver call
MaxPaths == 2

\* the same, when two resolver calls may be in flight at the same time
MaxOverlapPaths == 1

\* the resolver calls that may be in flight at the same time
CallIds == {"c1", "c2"}

----------------------------------------------------------------------------
(* JavaScript values                                                       *)

Null == <<"<null>">>
Undefined == <<"<undefined>">>

\* JS truthiness of a value that is null, undefined or a string
Truthy(v) == v # Null /\ v # Undefined /\ v # <<>>

NotFoundTok == "not found"

\* String.prototype.includes, for a searched text that is one token
Includes(s, tok) == \E i \in 1..Len(s) : s[i] = tok

\* a || b
OrElse(a, b) == IF Truthy(a) THEN a ELSE b

----------------------------------------------------------------------------
(* Paths                                                                   *)

IsSep(t) == t \in {"/", "\\"}

RECURSIVE SplitAt(_, _, _)
SplitAt(s, cur, acc) ==
    IF s = <<>> THEN Append(acc, cur)
    ELSE IF IsSep(Head(s)) THEN SplitAt(Tail(s), <<>>, Append(acc, cur))
    ELSE SplitAt(Tail(s), Append(cur, Head(s)), acc)

\* part.split(/[\\/]/)
Split(s) == SplitAt(s, <<>>, <<>>)

\* .filter(Boolean) on a list of strings
FilterBoolean(segs) == SelectSeq(segs, LAMBDA x : x # <<>>)

RECURSIVE CollapseSlashes(_)
\* result.replace(/\/+/g, '/')
CollapseSlashes(s) ==
    IF Len(s) < 2 THEN s
    ELSE IF s[1] = "/" /\ s[2] = "/" THEN CollapseSlashes(Tail(s))
    ELSE <<Head(s)>> \o CollapseSlashes(Tail(s))

RECURSIVE AppendParts(_, _, _)
AppendParts(result, parts, i) ==
    IF i > Len(parts) THEN result
    ELSE AppendParts(result \o <<"/">> \o parts[i], parts, i + 1)

\* a naive join that only concatenates
PathUtilsJoinConcat(a, b) == a \o <<"/">> \o b

\* PathUtils.join(a, b)
PathUtilsJoin(a, b) ==
    LET parts == FilterBoolean(Split(a) \o Split(b))
        first == IF Len(parts) > 0 THEN parts[1] ELSE <<>>
        start == IF a # <<>> /\ a[1] = "/" THEN <<"/">> \o first ELSE first
    IN  CollapseSlashes(AppendParts(start, parts, 2))

----------------------------------------------------------------------------
(* The inputs of the model                                                 *)

PathA == <<"a.txt">>
PathSlashA == <<"/", "a.txt">>
PathDB == <<"d", "/", "b.txt">>

RelPaths == {PathA, PathSlashA, PathDB}

RECURSIVE ListsOfLen(_)
ListsOfLen(n) ==
    IF n = 0 THEN {<<>>}
    ELSE {Append(l, p) : l \in ListsOfLen(n - 1), p \in RelPaths}

Injective(l) == \A i, j \in 1..Len(l) : l[i] = l[j] => i = j

\* the lists of at most max requested paths: the caller builds them from a Set
PathLists(max) == UNION {{l \in ListsOfLen(n) : Injective(l)} : n \in 0..max}

RootPath == <<"/", "root">>

ContentAlpha == <<"alpha">>
ContentOther == <<"other">>

\* data.tree of an answer of /api/directory, and the tree built from an
\* archive or a folder, as the listing of their top-level names; {} is the
\* empty listing
ServerTree == <<"src", "README.md">>
ServerTreeNew == <<"src", "README.md", "docs">>
BuiltTree == <<"a.txt">>
NoEntries == <<>>

PathDir == [id |-> 1, type |-> "path", path |-> RootPath, error |-> Null,
            name |-> <<"root">>, tree |-> ServerTree]
UploadedDir == [id |-> 2, type |-> "uploaded", path |-> Undefined, error |-> Null,
                name |-> <<"archive">>, tree |-> BuiltTree]

\* ids a caller may pass: the two registered ones and one that is not
DirIds == {1, 2, 3}

Endpoints == {<<"/">>, <<"https://", "host">>, <<"http://", "host">>}

\* what a per-file error of the batch service may say
ServerErrors == {Undefined, <<"ENOENT: file ", NotFoundTok>>, <<"permission denied">>}

\* what a rejected fetch, a failed body read or a failed lookup may say
ThrownMessages == {<<"Failed to fetch">>, <<"host ", NotFoundTok>>}

----------------------------------------------------------------------------
(* The uploaded-files store (db.js)                                        *)

DigitTok(d) == <<"0", "1", "2", "3", "4", "5", "6", "7", "8", "9">>[d + 1]

RECURSIVE NumToString(_)
NumToString(n) ==
    IF n < 10 THEN <<DigitTok(n)>>
    ELSE NumToString(n \div 10) \o <<DigitTok(n % 10)>>

\* `${dirId}:${filePath}`
DbKey(dirId, filePath) == NumToString(dirId) \o <<":">> \o filePath

\* getUploadedFile: the stored content, or null when the key is absent
GetUploadedFile(store, dirId, filePath) ==
    IF DbKey(dirId, filePath) \in DOMAIN store
    THEN store[DbKey(dirId, filePath)]
    ELSE Null

InitialStore ==
    [k \in {DbKey(2, PathA), DbKey(21, PathDB)} |->
        IF k = DbKey(2, PathA) THEN ContentAlpha ELSE ContentOther]

----------------------------------------------------------------------------
(* Result maps                                                             *)

Entry(c, e) == [content |-> c, error |-> e]

EmptyMap == [p \in {} |-> Entry(Null, Null)]

MapSet(m, k, v) == [x \in (DOMAIN m) \cup {k} |-> IF x = k THEN v ELSE m[x]]

Range(s) == {s[i] : i \in 1..Len(s)}

\* a loop that stops one path short
SetAllButLast(m, filePaths, e) ==
    [x \in (DOMAIN m) \cup Range(SubSeq(filePaths, 1, Len(filePaths) - 1)) |->
        IF x \in Range(filePaths) THEN e ELSE m[x]]

\* filePaths.forEach(p => results.set(p, entry))
SetAll(m, filePaths, e) ==
    [x \in (DOMAIN m) \cup Range(filePaths) |-> IF x \in Range(filePaths) THEN e ELSE m[x]]

----------------------------------------------------------------------------
(* Messages of the resolver                                                *)

MsgTargetDirNotFound == <<"Target directory ", NotFoundTok>>
MsgUploadedNotFound == <<"File ", NotFoundTok, " in uploaded data (may be deleted by patch)">>
MsgServerNotFound == <<"File ", NotFoundTok, " by server (may be deleted by patch)">>
MsgNoResponse == <<"No response from server for this file.">>
MsgBatchUnknown == <<"Batch fetch failed with unknown server error">>
MsgDbError(m) == <<"DB error: ">> \o m
MsgNetworkError(m) == <<"Network error: ">> \o m
MsgServerError(status, text) == <<"Server error: ", status, " - ">> \o text
MsgUnsupported(type) == <<"Unsupported directory type: ", type>>

\* what a failed store transaction says
DbErrors == {<<"Transaction aborted: ", "quota exceeded">>}

StatusNotOk == "500"

\* response.text() of a non-OK answer; Undefined stands for a rejected read
BodyTexts == {<<"Internal Server Error">>, Undefined}

----------------------------------------------------------------------------
(* fetchPatchRequiredFiles: the pure parts                                 *)

\* whether state.directories.find(d => d.id === dirId) finds a source
HasDir(dirs, dirId) == \E i \in 1..Len(dirs) : dirs[i].id = dirId

\* state.directories.find(d => d.id === dirId), when it finds one: the first
FindDir(dirs, dirId) ==
    dirs[CHOOSE i \in 1..Len(dirs) :
            dirs[i].id = dirId /\ \A j \in 1..(i - 1) : dirs[j].id # dirId]

\* a resolver that forgets to clear the FailureSet
FailedFilesKept(failed) == failed

\* state.failedFiles.clear()
FailedFilesCleared(failed) == {}

\* the branch taken when no source has the id
UnknownDirResults(filePaths) ==
    SetAll(EmptyMap, filePaths, Entry(Null, MsgTargetDirNotFound))

\* the branch taken for a type that is neither 'uploaded' nor 'path'
UnsupportedResults(filePaths, type) ==
    SetAll(EmptyMap, filePaths, Entry(Null, MsgUnsupported(type)))

\* the entry written when a store lookup returns
UploadedEntry(content) ==
    IF content # Null THEN Entry(content, Null) ELSE Entry(Null, MsgUploadedNotFound)

\* a lookup that also counts a missing key as a failure
UploadedFailureOrMissing(throws, content) == throws \/ content = Null

\* whether the lookup's path is added to state.failedFiles: only in the catch
UploadedFailure(throws, content) == throws

\* the entry written when a store lookup throws
UploadedThrowEntry(m) == Entry(Null, MsgDbError(m))

\* filePaths.map(p => PathUtils.join(dir.path, p))
AbsolutePathsToFetch(root, filePaths) ==
    [i \in 1..Len(filePaths) |-> PathUtilsJoin(root, filePaths[i])]

\* a per-file result of the batch response; NoResult is data.files[absPath] === undefined
NoResult == [present |-> FALSE, success |-> FALSE, content |-> Undefined, error |-> Undefined]
OkResult(c) == [present |-> TRUE, success |-> TRUE, content |-> c, error |-> Undefined]
FailResult(e) == [present |-> TRUE, success |-> FALSE, content |-> Undefined, error |-> e]

FileResults == {NoResult, OkResult(ContentAlpha)} \cup {FailResult(e) : e \in ServerErrors}

\* const errorMsg = result ? result.error : "File not found by server ..."
RemoteErrorMsg(result) == IF result.present THEN result.error ELSE MsgServerNotFound

\* the entry written for one absolute path of a successful batch
RemoteEntry(result) ==
    IF result.present /\ result.success
    THEN Entry(result.content, Null)
    ELSE Entry(Null, RemoteErrorMsg(result))

\* if (result && result.error && !errorMsg.includes("not found"))
RemoteFails(result) ==
    /\ ~(result.present /\ result.success)
    /\ result.present
    /\ Truthy(result.error)
    /\ ~Includes(RemoteErrorMsg(result), NotFoundTok)

RECURSIVE MapBack(_, _, _, _, _)
\* absolutePathsToFetch.forEach((absPath, index) => ...)
MapBack(acc, filePaths, absPaths, files, i) ==
    IF i > Len(absPaths) THEN acc
    ELSE LET relPath == filePaths[i]
             result == files[absPaths[i]]
         IN  MapBack([results |-> MapSet(acc.results, relPath, RemoteEntry(result)),
                      failed |-> IF RemoteFails(result)
                                 THEN acc.failed \cup {relPath}
                                 ELSE acc.failed],
                     filePaths, absPaths, files, i + 1)

RECURSIVE NoResponseSweep(_, _, _)
\* filePaths.forEach(relPath => { if (!results.has(relPath)) ... })
NoResponseSweep(acc, filePaths, i) ==
    IF i > Len(filePaths) THEN acc
    ELSE IF filePaths[i] \in DOMAIN acc.results
         THEN NoResponseSweep(acc, filePaths, i + 1)
         ELSE NoResponseSweep(
                  [results |-> MapSet(acc.results, filePaths[i], Entry(Null, MsgNoResponse)),
                   failed |-> acc.failed \cup {filePaths[i]}],
                  filePaths, i + 1)

\* a failure branch that sets the entries and forgets state.failedFiles.add(p)
FailAllUntracked(acc, filePaths, msg) ==
    [results |-> SetAll(acc.results, filePaths, Entry(Null, msg)),
     failed |-> acc.failed]

\* the batch-level failure branch and the catch block: every path gets the message
FailAll(acc, filePaths, msg) ==
    [results |-> SetAll(acc.results, filePaths, Entry(Null, msg)),
     failed |-> acc.failed \cup Range(filePaths)]

\* a parsed batch response
BatchData(success, hasFiles, files, error) ==
    [success |-> success, hasFiles |-> hasFiles, files |-> files, error |-> error]

NoData == BatchData(FALSE, FALSE, EmptyMap, Undefined)

\* the handling of a parsed batch response
HandleData(acc, filePaths, absPaths, data) ==
    IF data.success /\ data.hasFiles
    THEN NoResponseSweep(MapBack(acc, filePaths, absPaths, data.files, 1), filePaths, 1)
    ELSE FailAll(acc, filePaths, OrElse(data.error, MsgBatchUnknown))

\* what the batch service may answer for the given absolute paths
BatchErrors == {Undefined, <<"Directory ", NotFoundTok>>, <<"Too many files">>}

DataFor(absPaths) ==
    {BatchData(TRUE, TRUE, f, Undefined) : f \in [Range(absPaths) -> FileResults]}
    \cup {BatchData(FALSE, FALSE, EmptyMap, e) : e \in BatchErrors}
    \cup {BatchData(TRUE, FALSE, EmptyMap, Undefined)}

----------------------------------------------------------------------------
(* generatePatchPreview: the classification of a resolved file             *)

\* a classification that takes every message for an error
PreviewClassAnyMessage(fileData) ==
    IF Truthy(fileData.error) THEN "error"
    ELSE IF fileData.content = Null THEN "absent"
    ELSE "ok"

\* "error" (the file is pushed to filesWithErrors), "absent" (treated as a
\* new file, a deletion or a missing original) or "ok"
PreviewClass(fileData) ==
    IF Truthy(fileData.error) /\ ~Includes(fileData.error, NotFoundTok) THEN "error"
    ELSE IF fileData.content = Null THEN "absent"
    ELSE "ok"

----------------------------------------------------------------------------
(* tryFetchWithFallback: the pure parts                                    *)

\* `${state.baseEndpoint}/api/files`
FilesUrl(endpoint) == endpoint \o <<"/api/files">>

\* url.startsWith('/')
IsRelativeUrl(url) == url # <<>> /\ url[1] = "/"

\* a fallback that requests the same URL again
HttpUrlKept(url) == url

\* url.replace('https://', 'http://'): the first occurrence
HttpUrl(url) ==
    IF Includes(url, "https://")
    THEN LET k == CHOOSE i \in 1..Len(url) :
                      url[i] = "https://" /\ \A j \in 1..(i - 1) : url[j] # "https://"
         IN  [i \in 1..Len(url) |-> IF i = k THEN "http://" ELSE url[i]]
    ELSE url

\* a transport that retries whatever the form of the URL
FallsBackOnAnyUrl(url, outcome) == outcome # "ok"

\* whether the first attempt is followed by the fallback attempt
FallsBack(url, outcome) == ~IsRelativeUrl(url) /\ outcome # "ok"

----------------------------------------------------------------------------
(* The resolver calls in flight                                            *)

\* pc: "idle", "lookups" (store lookups pending), "fetching" (a fetch is
\* pending), "body" (the response body is being read), "returned".
\* overlapped: another resolver call was in flight during this one.
IdleCall ==
    [pc |-> "idle", dirId |-> 0, type |-> "", filePaths |-> <<>>, absPaths |-> <<>>,
     results |-> EmptyMap, pending |-> {}, threw |-> {}, fetches |-> <<>>,
     replies |-> <<>>, data |-> NoData, failed |-> {},
     overlapped |-> FALSE]

InFlight(c) == calls[c].pc # "idle"

Others(c) == {d \in CallIds \ {c} : InFlight(d)}

\* the slot a new call takes: slots are interchangeable, so the first free one
FreeSlot(slots) ==
    IF calls["c1"].pc = "idle" THEN "c1"
    ELSE IF "c2" \in slots /\ calls["c2"].pc = "idle" THEN "c2" ELSE "none"

\* the call records after call c moved to record r; a call that starts marks
\* itself and every call in flight as overlapped
Started(c, r) ==
    [d \in CallIds |->
        IF d = c THEN [r EXCEPT !.overlapped = Others(c) # {}]
        ELSE IF InFlight(d) THEN [calls[d] EXCEPT !.overlapped = TRUE]
        ELSE calls[d]]

\* the value handed to the caller: the call's record with the FailureSet as it
\* is when the call returns
Returned(r, acc) ==
    [r EXCEPT !.pc = "returned", !.results = acc.results, !.failed = acc.failed,
              !.pending = {}]

NoReturn == IdleCall

Acc(results, failed) == [results |-> results, failed |-> failed]

----------------------------------------------------------------------------
(* The patch input and the apply status (public/js/patcher.js, main.js)     *)

\* state.selectedDirectoryId === null.  Ids are values of Date.now(), which
\* are positive, so 0 stands for null: like null it is falsy and equals no id.
NoId == 0

\* whitespace, as far as String.trim is concerned
IsSpace(t) == t = " "

RECURSIVE TrimStart(_)
TrimStart(s) == IF s # <<>> /\ IsSpace(Head(s)) THEN TrimStart(Tail(s)) ELSE s

RECURSIVE TrimEnd(_)
TrimEnd(s) ==
    IF s # <<>> /\ IsSpace(s[Len(s)]) THEN TrimEnd(SubSeq(s, 1, Len(s) - 1)) ELSE s

\* s.trim()
Trim(s) == TrimEnd(TrimStart(s))

\* what the patch textarea may hold: nothing, white space, a patch
PatchTexts == {<<>>, <<" ">>, <<"diff">>}

\* setStatus(element, message, isError)
Status(text, isError) == [text |-> text, isError |-> isError]

NoStatus == Status(<<>>, FALSE)

MsgNoSource == <<"Error: No project source selected.">>
MsgSourceNotFound == <<"Error: Selected project source ", NotFoundTok, ".">>
MsgUploadedUnsupported == <<"Error: Cannot apply patch to uploaded directories.">>
MsgNoValidPath == <<"Error: Selected source has no valid path.">>
MsgPatchEmpty == <<"Error: Patch content is empty.">>
MsgApplying == <<"Applying patch...">>
MsgCannotApplyUploaded == <<"Cannot apply patch to uploaded sources.">>
MsgPasteToEnable == <<"Paste patch content to enable apply.">>

\* `Network/Request error: ${error.message}`
MsgRequestError(m) == <<"Network/Request error: ">> \o m

\* `Server responded with status ${response.status}`
MsgStatus(status) == <<"Server responded with status ", status>>

\* `Patch applied successfully to ${n} file(s).`
MsgApplied(n) == <<"Patch applied successfully to ">> \o NumToString(n) \o <<" file(s).">>

\* `Error applying patch: ${errorMsg}`, followed, when appliedCount > 0, by
\* ` (${appliedCount} file(s) might have been partially applied).`
MsgApplyFailed(errorMsg, appliedCount) ==
    <<"Error applying patch: ">> \o errorMsg \o
    (IF appliedCount > 0
     THEN <<" (">> \o NumToString(appliedCount)
               \o <<" file(s) might have been partially applied).">>
     ELSE <<>>)

\* a precondition check that lets an uploaded source through
ApplyPreconditionAnyType(dirs, sel, patchArg) ==
    IF sel = NoId THEN MsgNoSource
    ELSE IF ~HasDir(dirs, sel) THEN MsgSourceNotFound
    ELSE IF ~Truthy(FindDir(dirs, sel).path) THEN MsgNoValidPath
    ELSE IF ~Truthy(Trim(patchArg)) THEN MsgPatchEmpty
    ELSE Null

\* the checks applyPatch makes before its try block: the message of the first
\* one that fails, or null when all pass
ApplyPrecondition(dirs, sel, patchArg) ==
    IF sel = NoId THEN MsgNoSource
    ELSE IF ~HasDir(dirs, sel) THEN MsgSourceNotFound
    ELSE IF FindDir(dirs, sel).type = "uploaded" THEN MsgUploadedUnsupported
    ELSE IF ~Truthy(FindDir(dirs, sel).path) THEN MsgNoValidPath
    ELSE IF ~Truthy(Trim(patchArg)) THEN MsgPatchEmpty
    ELSE Null

\* `${state.baseEndpoint}/api/apply_patch`
ApplyUrl(endpoint) == endpoint \o <<"/api/apply_patch">>

\* updateApplyButtonState(selectedDirType) of patcher.js: the disabled flag
PatcherButtonDisabled(selectedDirType, content) ==
    ~(selectedDirType = "path" /\ Truthy(Trim(content)))

\* updateApplyButtonState(selectedDirType) of patcher.js: the status line
PatcherStatus(selectedDirType, content, status) ==
    IF selectedDirType = "uploaded" /\ Truthy(Trim(content))
    THEN Status(MsgCannotApplyUploaded, TRUE)
    ELSE IF selectedDirType = "path" /\ ~Truthy(Trim(content))
    THEN Status(MsgPasteToEnable, FALSE)
    ELSE IF selectedDirType # "path" THEN NoStatus
    ELSE status

\* updateApplyButtonState() of main.js: the disabled flag
MainButtonDisabled(dirs, sel, input) ==
    ~(/\ HasDir(dirs, sel)
      /\ FindDir(dirs, sel).type = "path"
      /\ Truthy(Trim(input))
      /\ ~Truthy(FindDir(dirs, sel).error))

\* most files the apply service reports as applied
MaxApplied == 2

\* the error field of the apply service's answer
ApplyErrors == {Undefined, <<"hunk failed">>}

\* the parsed answer of the apply service: success (true, false or missing),
\* appliedFiles (its length, or -1 when the field is missing) and error
ApplyData(success, applied, error) ==
    [success |-> success, applied |-> applied, error |-> error]

ApplyAnswers ==
    {ApplyData(s, n, e) : s \in {"true", "false", "missing"},
                          n \in -1..MaxApplied, e \in ApplyErrors}

\* data.appliedFiles?.length || 0
AppliedCount(data) == IF data.applied < 0 THEN 0 ELSE data.applied

\* the applyPatch call: pc is "idle", "fetching" or "body"; patchArg is its
\* argument; sel and dirs are the selection and the registry it read, enabled
\* whether the Apply button was enabled, dirType the type of the source found; fetches are the URLs requested and replies
\* how each attempt ended; outcome says how the last completed call ended and
\* reported is the status line it left
IdleApply ==
    [pc |-> "idle", patchArg |-> <<>>, sel |-> NoId, dirs |-> <<>>,
     enabled |-> FALSE, dirType |-> "", fetches |-> <<>>, replies |-> <<>>,
     data |-> ApplyData("missing", -1, Undefined),
     outcome |-> "none", reported |-> NoStatus]

----------------------------------------------------------------------------
(* The source registry and its persistence (main.js, state.js)             *)

\* localStorage.setItem(key, id): the value is stored as String(id)
ToStorageString(id) == IF id = NoId THEN <<"null">> ELSE NumToString(id)

DigitVal(t) == CHOOSE d \in 0..9 : DigitTok(d) = t

IsDigits(s) == s # <<>> /\ \A i \in 1..Len(s) : \E d \in 0..9 : DigitTok(d) = s[i]

RECURSIVE ParseDigits(_, _)
ParseDigits(s, acc) ==
    IF s = <<>> THEN acc ELSE ParseDigits(Tail(s), 10 * acc + DigitVal(Head(s)))

\* parseInt(s, 10) of a string of digits
ParseInt(s) == ParseDigits(s, 0)

\* a saved source that lost its display name
SavedDirUnnamed(d) ==
    [id |-> d.id, type |-> d.type, path |-> d.path, name |-> Undefined,
     error |-> d.error]

\* the objects handed to setDirectories: the fields of a source but its tree
SavedDir(d) ==
    [id |-> d.id, type |-> d.type, path |-> d.path, name |-> d.name,
     error |-> d.error]

SavedDirs(dirs) == [i \in 1..Len(dirs) |-> SavedDir(dirs[i])]

\* what saveStateToLocalStorage writes
Snapshot(endpoint, dirs, sel, failed) ==
    [endpoint |-> endpoint, selectedId |-> ToStorageString(sel),
     directories |-> SavedDirs(dirs), failedFiles |-> failed]

\* saveStateToLocalStorage() when the handler has changed the registry to dirs
\* and the selection to sel
Saved(dirs, sel) == Snapshot(baseEndpoint, dirs, sel, failedFiles)

\* getDirectories(): a copy of every stored object; a source restored from it
\* has no tree property
LoadedDir(s) ==
    [id |-> s.id, type |-> s.type, path |-> s.path, error |-> s.error,
     name |-> s.name, tree |-> Undefined]

LoadedDirs(saved) == [i \in 1..Len(saved) |-> LoadedDir(saved[i])]

\* loadStateFromLocalStorage: the endpoint restored from the saved value
LoadEndpoint(saved) ==
    IF Truthy(saved) /\ saved \notin {<<"null">>, <<"undefined">>} THEN saved
    ELSE <<"/">>

\* a restore that ignores the saved id
LoadSelectionFirst(saved, dirs) == IF Len(dirs) > 0 THEN dirs[1].id ELSE NoId

\* a restore that trusts the saved id
LoadSelectionTrusting(saved, dirs) ==
    IF IsDigits(saved) THEN ParseInt(saved)
    ELSE IF Len(dirs) > 0 THEN dirs[1].id
    ELSE NoId

\* loadStateFromLocalStorage: the selection restored from the saved id
LoadSelection(saved, dirs) ==
    IF Truthy(saved) /\ \E i \in 1..Len(dirs) : NumToString(dirs[i].id) = saved
    THEN ParseInt(saved)
    ELSE IF Len(dirs) > 0 THEN dirs[1].id
    ELSE NoId

\* renderDirectoriesList: the selection it leaves
RenderSelection(dirs, sel) ==
    IF Len(dirs) = 0 THEN NoId
    ELSE IF HasDir(dirs, sel) THEN sel
    ELSE dirs[1].id

\* renderDirectoriesList: whether it calls saveStateToLocalStorage
RenderSaves(dirs, sel) == Len(dirs) > 0 /\ ~HasDir(dirs, sel)

\* a removal that falls back to the last remaining source
SelectionAfterRemoveLast(dirs, sel, id) ==
    IF sel = id THEN (IF Len(dirs) > 0 THEN dirs[Len(dirs)].id ELSE NoId) ELSE sel

\* the remove handler: the selection after state.directories was filtered
SelectionAfterRemove(dirs, sel, id) ==
    IF sel = id THEN (IF Len(dirs) > 0 THEN dirs[1].id ELSE NoId) ELSE sel

\* an insertion at the head of the list
PushDirFirst(dirs, d) == <<d>> \o dirs

\* state.directories.push(newDir)
PushDir(dirs, d) == Append(dirs, d)

\* state.directories.filter(d => d.id !== id)
RemoveDir(dirs, id) == SelectSeq(dirs, LAMBDA d : d.id # id)

\* a field that a write to a source leaves as it is
Keep == <<"<keep>">>

\* the writes of a handler to the source object it holds, seen in the list:
\* dir.path (unless Keep) and dir.error of the source with the given id; a
\* source that was removed from the list meanwhile is not in it
UpdateDir(dirs, id, path, error) ==
    [i \in 1..Len(dirs) |->
        IF dirs[i].id = id
        THEN [dirs[i] EXCEPT !.path = IF path = Keep THEN @ ELSE path,
                             !.error = error]
        ELSE dirs[i]]

\* a server source whose path the server left out of its answer
NoPathDir == [id |-> 4, type |-> "path", path |-> Undefined, error |-> Null,
              name |-> <<"path-", "4">>, tree |-> ServerTree]

\* a write that adds the new entries to the ones the source had
UpdateTreeMerging(dirs, id, newTree) ==
    [i \in 1..Len(dirs) |->
        IF dirs[i].id = id /\ newTree # Keep
        THEN [dirs[i] EXCEPT !.tree = @ \o newTree]
        ELSE dirs[i]]

\* the write of a handler to dir.tree of the source object it holds
UpdateTree(dirs, id, newTree) ==
    [i \in 1..Len(dirs) |->
        IF dirs[i].id = id /\ newTree # Keep THEN [dirs[i] EXCEPT !.tree = newTree]
        ELSE dirs[i]]

\* the write of a handler to dir.name of the source object it holds
UpdateName(dirs, id, name) ==
    [i \in 1..Len(dirs) |->
        IF dirs[i].id = id /\ name # Keep THEN [dirs[i] EXCEPT !.name = name]
        ELSE dirs[i]]

\* the first value of Date.now() a handler sees
FirstClock == 5

\* most sources added after start-up
MaxAdds == 1

\* most asynchronous handlers in flight
MaxTasks == 2

NoOp == [op |-> "none", id |-> NoId, dirsBefore |-> <<>>, selBefore |-> NoId,
         saved |-> FALSE, fetched |-> FALSE, returned |-> "none", read |-> FALSE]

\* the application at rest, with two sources registered and the first selected
AppIdle ==
    /\ selectedDirectoryId = 1
    /\ patchContent = <<>>
    /\ patchInput = <<>>
    /\ debounceTimer = FALSE
    /\ applyStatus = NoStatus
    /\ applyButtonDisabled = TRUE
    /\ apply = IdleApply
    /\ storage = Snapshot(<<"/">>, <<PathDir, UploadedDir>>, 1, {})
    /\ phase = "ready"
    /\ clock = FirstClock
    /\ tasks = {}
    /\ regLast = NoOp

----------------------------------------------------------------------------
(* The tree builder (public/js/utils.js)                                   *)
(*                                                                         *)
(* A tree is a function from the key path of a node (the property names    *)
(* that lead to it from the root object, through the children objects) to  *)
(* the node.  The children object of a folder is the set of nodes whose    *)
(* key path extends the folder's by one name.                              *)

RECURSIVE SplitSlashAt(_, _, _)
SplitSlashAt(s, cur, acc) ==
    IF s = <<>> THEN Append(acc, cur)
    ELSE IF Head(s) = "/" THEN SplitSlashAt(Tail(s), <<>>, Append(acc, cur))
    ELSE SplitSlashAt(Tail(s), Append(cur, Head(s)), acc)

\* filePath.split('/')
SplitSlash(s) == SplitSlashAt(s, <<>>, <<>>)

RECURSIVE JoinSlash(_)
\* parts.join('/')
JoinSlash(parts) ==
    IF parts = <<>> THEN <<>>
    ELSE IF Len(parts) = 1 THEN parts[1]
    ELSE parts[1] \o <<"/">> \o JoinSlash(Tail(parts))

EmptyTree == [k \in {} |-> [type |-> "file", path |-> <<>>]]

FileNode(path) == [type |-> "file", path |-> path]
FolderNode(path) == [type |-> "folder", path |-> path]

\* a terminal step that replaces whatever node is there
PlaceFileOverwriting(t, key, filePath) == MapSet(t, key, FileNode(filePath))

\* the last part of a file path: current[part] is set unless it is a folder
PlaceFile(t, key, filePath) ==
    IF key \notin DOMAIN t THEN MapSet(t, key, FileNode(filePath))
    ELSE IF t[key].type # "folder" THEN MapSet(t, key, FileNode(filePath))
    ELSE t

\* the last part when isDir is true: an existing node is kept
PlaceFolder(t, key, filePath) ==
    IF key \notin DOMAIN t THEN MapSet(t, key, FolderNode(filePath)) ELSE t

\* whether key path k lies strictly below key path key
Below(k, key) == Len(k) > Len(key) /\ SubSeq(k, 1, Len(key)) = key

\* an intermediate step that replaces the folder by an empty one
EnterFolderFresh(t, key, currentPath) ==
    MapSet([k \in {x \in DOMAIN t : ~Below(x, key)} |-> t[k]],
           key, FolderNode(currentPath))

\* an intermediate part that is absent or a folder: the folder node is created
\* if it is absent, and kept with its children if it is there
EnterFolder(t, key, currentPath) ==
    IF key \notin DOMAIN t THEN MapSet(t, key, FolderNode(currentPath)) ELSE t

RECURSIVE AddParts(_, _, _, _, _)
\* the loop of addToTree from index i (1-based) on
AddParts(t, parts, filePath, isDir, i) ==
    IF i > Len(parts) THEN t
    ELSE LET key == SubSeq(parts, 1, i)
             currentPath == JoinSlash(key)
         IN  IF i = Len(parts)
             THEN IF ~isDir THEN PlaceFile(t, key, filePath)
                  ELSE PlaceFolder(t, key, filePath)
             ELSE IF key \notin DOMAIN t \/ t[key].type = "folder"
             THEN AddParts(EnterFolder(t, key, currentPath),
                           parts, filePath, isDir, i + 1)
             ELSE t

\* addToTree(tree, filePath, isDir): the tree after the call
addToTree(t, filePath, isDir) ==
    AddParts(t, FilterBoolean(SplitSlash(filePath)), filePath, isDir, 1)

\* most calls of addToTree on one tree
MaxInserts == 3

PathD == <<"d">>
PathDBC == <<"d", "/", "b.txt", "/", "c.txt">>
PathDSlashes == <<"/", "d", "/", "/", "b.txt", "/">>
PathOnlySlash == <<"/">>
PathDE == <<"d", "/", "e.txt">>

\* the entry names handed to addToTree
TreePaths ==
    {PathA, PathSlashA, PathDB, PathD, PathDBC, PathDSlashes, PathOnlySlash, PathDE}

\* the last call of addToTree: how many calls were made, its path, the tree
\* before it, the paths of all the calls in their order, and the keys of the
\* files object that the builder fills beside the tree
NoInsert == [n |-> 0, filePath |-> <<>>, before |-> EmptyTree, inserted |-> <<>>,
             files |-> {}]

\* const tree = {}
TreeInit ==
    /\ tree = EmptyTree
    /\ treeLast = NoInsert

----------------------------------------------------------------------------
(* The preview (public/js/patcher.js, public/js/main.js)                    *)
(*                                                                         *)
(* A patch text is a sequence of tokens: white space, the text of one file *)
(* diff, or text that is no diff.  Diff.parsePatch is the jsdiff library;  *)
(* the record it makes of each file diff is given by a table.              *)

\* the name that stands for a file that does not exist
DevNull == <<"/", "dev", "/", "null">>

PathFoo == <<"foo.txt">>
PathBar == <<"bar.txt">>
PathDFoo == <<"d", "/", "foo.txt">>

\* an entry of the array Diff.parsePatch returns
DiffRecord(old, new) == [oldFileName |-> old, newFileName |-> new]

\* the file diffs of the model: bar.txt is created, foo.txt is changed (with
\* and without the a/ and b/ markers), d/foo.txt is changed, foo.txt is deleted
DiffTokens == {"diff", "diff foo", "diff foo bare", "diff d/foo", "diff -foo"}

DiffOf(tok) ==
    CASE tok = "diff" -> DiffRecord(DevNull, <<"b", "/">> \o PathBar)
      [] tok = "diff foo" -> DiffRecord(<<"a", "/">> \o PathFoo, <<"b", "/">> \o PathFoo)
      [] tok = "diff foo bare" -> DiffRecord(PathFoo, PathFoo)
      [] tok = "diff d/foo" -> DiffRecord(PathDFoo, PathDFoo)
      [] tok = "diff -foo" -> DiffRecord(<<"a", "/">> \o PathFoo, DevNull)

\* parsePatch(patchContent): the records of the file diffs of the text, in
\* their order; none (null is returned, with an error status) when the text
\* holds anything that is no diff
parsePatch(text) ==
    IF \E i \in 1..Len(text) : text[i] \notin DiffTokens \cup {" "} THEN <<>>
    ELSE LET diffs == SelectSeq(text, LAMBDA t : t \in DiffTokens)
         IN  [i \in 1..Len(diffs) |-> DiffOf(diffs[i])]

\* a strip of whatever one-letter directory leads the name
StripAnyMarker(name, marker) ==
    IF Len(name) >= 2 /\ name[2] = "/" /\ name[1] # "/"
    THEN SubSeq(name, 3, Len(name)) ELSE name

\* name.startsWith('a/') ? name.substring(2) : name, and the same for 'b/'
StripMarker(name, marker) ==
    IF Len(name) >= 2 /\ name[1] = marker /\ name[2] = "/"
    THEN SubSeq(name, 3, Len(name)) ELSE name

RECURSIVE RequiredFrom(_, _)
\* parsedPatches.forEach(patch => ...) on requiredFilesRelative, a Set: acc
\* holds its elements in the order of their insertion
RequiredFrom(patches, acc) ==
    IF patches = <<>> THEN acc
    ELSE LET old == Head(patches).oldFileName
             path == StripMarker(old, "a")
         IN  RequiredFrom(Tail(patches),
                 IF Truthy(old) /\ old # DevNull /\ path \notin Range(acc)
                 THEN Append(acc, path) ELSE acc)

\* Array.from(requiredFilesRelative)
requiredFilesRelative(patches) == RequiredFrom(patches, <<>>)

\* the key under which the resolution of a diff record is looked up
FileKey(patch) ==
    LET oldRelPath == StripMarker(patch.oldFileName, "a")
        newRelPath == StripMarker(patch.newFileName, "b")
    IN  IF Truthy(oldRelPath) /\ oldRelPath # DevNull THEN oldRelPath ELSE newRelPath

\* the annotation of the header of a file block: "error", "new file",
\* "deletion", "warning" (original not found, assuming empty) or "none"
Annotation(patch, fetchedFiles) ==
    LET fileKey == FileKey(patch)
        class == IF fileKey \in DOMAIN fetchedFiles
                 THEN PreviewClass(fetchedFiles[fileKey]) ELSE "absent"
    IN  IF class = "error" THEN "error"
        ELSE IF class = "absent"
        THEN IF patch.oldFileName = DevNull \/ patch.newFileName = DevNull
             THEN (IF patch.newFileName = DevNull THEN "deletion" ELSE "new file")
             ELSE "warning"
        ELSE "none"

\* the file blocks of previewHTML
PreviewBlocks(patches, fetchedFiles) ==
    [i \in 1..Len(patches) |->
        [file |-> FileKey(patches[i]), note |-> Annotation(patches[i], fetchedFiles)]]

\* filesWithErrors
FilesWithErrors(blocks) ==
    LET bad == SelectSeq(blocks, LAMBDA b : b.note = "error")
    IN  [i \in 1..Len(bad) |-> bad[i].file]

MsgPreviewPaste == <<"Paste patch content to see preview.">>
MsgPreviewSelect == <<"Select a project source first.">>
MsgPreviewSourceNotFound == <<"Selected project source ", NotFoundTok, ".">>
MsgPreviewSourceError(e) == <<"Cannot preview: Source has error - ">> \o e
MsgInvalidPatch == <<"Error: Invalid patch format.">>
MsgSeemsEmpty == <<"Patch seems empty or only affects /dev/null.">>
MsgFetching(n) == <<"Workspaceing ">> \o NumToString(n) \o <<" file(s)...">>
MsgWithErrors(n) ==
    <<"Preview generated with errors in ">> \o NumToString(n) \o <<" file(s).">>
MsgSomeFailed == <<"Preview generated. Some files failed to fetch.">>
MsgPreviewSuccess == <<"Preview generated successfully.">>

\* the status generatePatchPreview sets last
FinalStatus(filesWithErrors, failed) ==
    IF Len(filesWithErrors) > 0 THEN Status(MsgWithErrors(Len(filesWithErrors)), TRUE)
    ELSE IF failed # {} THEN Status(MsgSomeFailed, TRUE)
    ELSE Status(MsgPreviewSuccess, FALSE)

\* a validation that does not look at dir.error
EarlyStatusDespiteError(dirs, sel, text) ==
    IF ~Truthy(Trim(text)) THEN Status(MsgPreviewPaste, FALSE)
    ELSE IF sel = NoId THEN Status(MsgPreviewSelect, TRUE)
    ELSE IF ~HasDir(dirs, sel) THEN Status(MsgPreviewSourceNotFound, TRUE)
    ELSE IF parsePatch(text) = <<>> THEN Status(MsgInvalidPatch, TRUE)
    ELSE IF requiredFilesRelative(parsePatch(text)) = <<>>
    THEN Status(MsgSeemsEmpty, TRUE)
    ELSE NoStatus

\* the status with which generatePatchPreview returns before it calls the
\* resolver, or NoStatus when it goes on to call it
EarlyStatus(dirs, sel, text) ==
    IF ~Truthy(Trim(text)) THEN Status(MsgPreviewPaste, FALSE)
    ELSE IF sel = NoId THEN Status(MsgPreviewSelect, TRUE)
    ELSE IF ~HasDir(dirs, sel) THEN Status(MsgPreviewSourceNotFound, TRUE)
    ELSE IF Truthy(FindDir(dirs, sel).error)
    THEN Status(MsgPreviewSourceError(FindDir(dirs, sel).error), TRUE)
    ELSE IF parsePatch(text) = <<>> THEN Status(MsgInvalidPatch, TRUE)
    ELSE IF requiredFilesRelative(parsePatch(text)) = <<>>
    THEN Status(MsgSeemsEmpty, TRUE)
    ELSE NoStatus

\* a display that keeps what is shown when a newer call has started
RenderedIfNewest(shown, rendered, superseded) ==
    IF superseded THEN shown ELSE rendered

\* patchPreviewEl.innerHTML = previewHTML and the final setStatus: what the
\* call has rendered replaces what is shown
Rendered(shown, rendered, superseded) == rendered

\* a call of generatePatchPreview that awaits the resolver: its parsed patch,
\* the type of the source it found, and whether a newer call has started
IdleCycle == [pc |-> "idle", text |-> <<>>, patches |-> <<>>, dirType |-> "",
              superseded |-> FALSE]

\* the last part of a call of generatePatchPreview that ran: stage is "early"
\* (the call returned before the resolver), "awaiting" (it called the
\* resolver) or "rendered" (it resumed and rendered); text is its argument,
\* returned what the resolver handed it, errors its filesWithErrors
NoCycle == [stage |-> "none", text |-> <<>>, returned |-> NoReturn,
            errors |-> <<>>, superseded |-> FALSE]

\* the wait of the debounced preview, in milliseconds
DebounceWait == 500

\* the step of time, in milliseconds
Tick == 250

\* the triggers a burst has at most
MaxBurst == 3

\* time is not observed: the timer may fire at any step
Untimed == [since |-> -1, burst |-> 0, fired |-> 0]

\* debounce: clearTimeout(timeout); timeout = setTimeout(..., wait).  since
\* is the time since the last trigger, burst the triggers since the timer was
\* last idle, fired the runs of the timer's callback since the last trigger
Triggered(q) ==
    IF q.since < 0 THEN q
    ELSE [since |-> 0, burst |-> IF debounceTimer THEN q.burst + 1 ELSE 1,
          fired |-> 0]

\* the user adds a trigger to a burst only while it is short of MaxBurst
BurstOpen == quiet.since < 0 \/ ~debounceTimer \/ quiet.burst < MaxBurst

\* a timer that is due at once
TimerDueAtOnce(q) == TRUE

\* the timeout set by the last trigger is due
TimerDue(q) == q.since < 0 \/ q.since >= DebounceWait

\* no preview was generated yet
PreviewIdle ==
    /\ previewStatus = NoStatus
    /\ patchPreview = <<>>
    /\ cycles = [c \in CallIds |-> IdleCycle]
    /\ previewLast = NoCycle
    /\ quiet = Untimed

----------------------------------------------------------------------------
(* Actions                                                                 *)

Init ==
    /\ directories = <<PathDir, UploadedDir>>
    /\ baseEndpoint \in Endpoints
    /\ uploadedFiles = InitialStore
    /\ failedFiles = {}
    /\ calls = [c \in CallIds |-> IdleCall]
    /\ lastReturn = NoReturn
    /\ TreeInit
    /\ AppIdle
    /\ PreviewIdle

\* fetchPatchRequiredFiles(dirId, filePaths), up to its first await or, on the
\* branches that do not await, up to its return
fetchPatchRequiredFiles(c, dirId, filePaths) ==
    /\ lastReturn.pc = "idle"
    /\ calls[c].pc = "idle"
    /\ LET base == [IdleCall EXCEPT !.dirId = dirId, !.filePaths = filePaths,
                                    !.overlapped = Others(c) # {}]
           start == FailedFilesCleared(failedFiles)
           cleared == Acc(EmptyMap, start)
       IN  IF ~HasDir(directories, dirId)
           THEN /\ failedFiles' = start
                /\ lastReturn' = Returned(base, Acc(UnknownDirResults(filePaths), start))
                /\ calls' = Started(c, IdleCall)
           ELSE LET dir == FindDir(directories, dirId)
                    typed == [base EXCEPT !.type = dir.type]
                IN  IF dir.type = "uploaded"
                    THEN IF Len(filePaths) = 0
                         THEN /\ failedFiles' = start
                              /\ lastReturn' = Returned(typed, cleared)
                              /\ calls' = Started(c, IdleCall)
                         ELSE /\ failedFiles' = start
                              /\ lastReturn' = lastReturn
                              /\ calls' = Started(c, [typed EXCEPT
                                              !.pc = "lookups",
                                              !.pending = 1..Len(filePaths)])
                    ELSE IF dir.type = "path"
                    THEN LET abs == AbsolutePathsToFetch(dir.path, filePaths)
                             withAbs == [typed EXCEPT !.absPaths = abs]
                         IN  IF Len(abs) > 0
                             THEN /\ failedFiles' = start
                                  /\ lastReturn' = lastReturn
                                  /\ calls' = Started(c, [withAbs EXCEPT
                                                  !.pc = "fetching",
                                                  !.fetches = <<[url |-> FilesUrl(baseEndpoint),
                                                                 paths |-> abs]>>])
                             ELSE /\ failedFiles' = start
                                  /\ lastReturn' = Returned(withAbs, cleared)
                                  /\ calls' = Started(c, IdleCall)
                    ELSE /\ failedFiles' = start \cup Range(filePaths)
                         /\ lastReturn' = Returned(typed,
                                Acc(UnsupportedResults(filePaths, dir.type),
                                    start \cup Range(filePaths)))
                         /\ calls' = Started(c, IdleCall)
    /\ UNCHANGED <<directories, baseEndpoint, uploadedFiles>>

\* lookups without the try/catch around each of them: the first one that throws
\* rejects Promise.all and ends the call with the entries written so far
uploadedLookupAborts(c, i, throws, m) ==
    /\ lastReturn.pc = "idle"
    /\ calls[c].pc = "lookups"
    /\ i \in calls[c].pending
    /\ LET r == calls[c]
           filePath == r.filePaths[i]
           content == GetUploadedFile(uploadedFiles, r.dirId, filePath)
           next == [r EXCEPT !.results = IF throws THEN r.results
                                         ELSE MapSet(r.results, filePath, UploadedEntry(content)),
                             !.pending = r.pending \ {i},
                             !.threw = IF throws THEN r.threw \cup {i} ELSE r.threw]
       IN  /\ failedFiles' = failedFiles
           /\ IF throws \/ next.pending = {}
              THEN /\ lastReturn' = Returned(next, Acc(next.results, failedFiles))
                   /\ calls' = [calls EXCEPT ![c] = IdleCall]
              ELSE /\ lastReturn' = lastReturn
                   /\ calls' = [calls EXCEPT ![c] = next]
    /\ UNCHANGED <<directories, baseEndpoint, uploadedFiles>>

\* one of the concurrent store lookups of an 'uploaded' call completes: the body
\* of the async callback after `await getUploadedFile`; the last one to complete
\* resolves Promise.all and the call returns
uploadedLookupDone(c, i, throws, m) ==
    /\ lastReturn.pc = "idle"
    /\ calls[c].pc = "lookups"
    /\ i \in calls[c].pending
    /\ LET r == calls[c]
           filePath == r.filePaths[i]
           content == GetUploadedFile(uploadedFiles, r.dirId, filePath)
           entry == IF throws THEN UploadedThrowEntry(m) ELSE UploadedEntry(content)
           failed == IF UploadedFailure(throws, content)
                     THEN failedFiles \cup {filePath} ELSE failedFiles
           next == [r EXCEPT !.results = MapSet(r.results, filePath, entry),
                             !.pending = r.pending \ {i},
                             !.threw = IF throws THEN r.threw \cup {i} ELSE r.threw]
       IN  /\ failedFiles' = failed
           /\ IF next.pending = {}
              THEN /\ lastReturn' = Returned(next, Acc(next.results, failed))
                   /\ calls' = [calls EXCEPT ![c] = IdleCall]
              ELSE /\ lastReturn' = lastReturn
                   /\ calls' = [calls EXCEPT ![c] = next]
    /\ UNCHANGED <<directories, baseEndpoint, uploadedFiles>>

\* the pending fetch of tryFetchWithFallback settles: outcome "throw" (the fetch
\* rejects), "notok" (a response with a non-OK status) or "ok"
tryFetchWithFallback(c, outcome, m) ==
    /\ lastReturn.pc = "idle"
    /\ calls[c].pc = "fetching"
    /\ LET r == calls[c]
           k == Len(r.fetches)
           url == r.fetches[k].url
           replied == [r EXCEPT !.replies = Append(r.replies, outcome)]
       IN  IF k = 1 /\ FallsBack(url, outcome)
           THEN \* the catch of the first attempt, then fetch(httpUrl, fetchOptions)
                /\ calls' = [calls EXCEPT ![c] = [replied EXCEPT
                                !.fetches = Append(r.fetches,
                                    [url |-> HttpUrl(url), paths |-> r.fetches[k].paths])]]
                /\ UNCHANGED <<failedFiles, lastReturn>>
           ELSE IF outcome = "throw"
           THEN \* the rejection reaches the catch block of the resolver
                LET acc == FailAll(Acc(r.results, failedFiles), r.filePaths,
                                   MsgNetworkError(m))
                IN  /\ failedFiles' = acc.failed
                    /\ lastReturn' = Returned(replied, acc)
                    /\ calls' = [calls EXCEPT ![c] = IdleCall]
           ELSE \* the response is handed to the resolver, which reads its body
                /\ calls' = [calls EXCEPT ![c] = [replied EXCEPT !.pc = "body"]]
                /\ UNCHANGED <<failedFiles, lastReturn>>
    /\ UNCHANGED <<directories, baseEndpoint, uploadedFiles>>

ResponseOk(r) == r.replies[Len(r.replies)] = "ok"

\* the body of a non-OK response was read (or the read failed): the resolver
\* throws and its catch block runs
readErrorText(c, text) ==
    /\ lastReturn.pc = "idle"
    /\ calls[c].pc = "body"
    /\ ~ResponseOk(calls[c])
    /\ LET r == calls[c]
           errorText == IF text = Undefined THEN <<"HTTP ", StatusNotOk>> ELSE text
           acc == FailAll(Acc(r.results, failedFiles), r.filePaths,
                          MsgNetworkError(MsgServerError(StatusNotOk, errorText)))
       IN  /\ failedFiles' = acc.failed
           /\ lastReturn' = Returned(r, acc)
           /\ calls' = [calls EXCEPT ![c] = IdleCall]
    /\ UNCHANGED <<directories, baseEndpoint, uploadedFiles>>

\* response.json() of an OK response rejects: the catch block runs
readJsonThrows(c, m) ==
    /\ lastReturn.pc = "idle"
    /\ calls[c].pc = "body"
    /\ ResponseOk(calls[c])
    /\ LET r == calls[c]
           acc == FailAll(Acc(r.results, failedFiles), r.filePaths, MsgNetworkError(m))
       IN  /\ failedFiles' = acc.failed
           /\ lastReturn' = Returned(r, acc)
           /\ calls' = [calls EXCEPT ![c] = IdleCall]
    /\ UNCHANGED <<directories, baseEndpoint, uploadedFiles>>

\* response.json() of an OK response resolves to data: the results are mapped
\* back and the call returns
readJson(c, data) ==
    /\ lastReturn.pc = "idle"
    /\ calls[c].pc = "body"
    /\ ResponseOk(calls[c])
    /\ LET r == calls[c]
           acc == HandleData(Acc(r.results, failedFiles), r.filePaths, r.absPaths, data)
       IN  /\ failedFiles' = acc.failed
           /\ lastReturn' = Returned([r EXCEPT !.data = data], acc)
           /\ calls' = [calls EXCEPT ![c] = IdleCall]
    /\ UNCHANGED <<directories, baseEndpoint, uploadedFiles>>

\* clearPreview(), as run at the start of a preview cycle that ends before it
\* reaches the resolver
clearPreview ==
    /\ lastReturn.pc = "idle"
    /\ failedFiles' = {}
    /\ UNCHANGED <<directories, baseEndpoint, uploadedFiles, calls, lastReturn>>

\* the caller resumes from `await fetchPatchRequiredFiles(...)` with the map:
\* this continuation runs before any other task
resume ==
    /\ lastReturn.pc = "returned"
    /\ lastReturn' = NoReturn
    /\ UNCHANGED <<directories, baseEndpoint, uploadedFiles, failedFiles, calls>>

\* the steps of the program when the resolver calls run in the given slots and
\* are handed the given path lists
NextOn(slots, lists) ==
    /\ \/ \E dirId \in DirIds, filePaths \in lists :
             /\ FreeSlot(slots) \in slots
             /\ fetchPatchRequiredFiles(FreeSlot(slots), dirId, filePaths)
       \/ \E c \in slots : \E i \in calls[c].pending :
             \/ uploadedLookupDone(c, i, FALSE, <<>>)
             \/ \E m \in DbErrors : uploadedLookupDone(c, i, TRUE, m)
       \/ \E c \in slots, outcome \in {"throw", "notok", "ok"}, m \in ThrownMessages :
             tryFetchWithFallback(c, outcome, m)
       \/ \E c \in slots, text \in BodyTexts : readErrorText(c, text)
       \/ \E c \in slots, m \in ThrownMessages : readJsonThrows(c, m)
       \/ \E c \in slots : \E data \in DataFor(calls[c].absPaths) : readJson(c, data)
       \/ clearPreview
       \/ resume
    /\ UNCHANGED <<selectedDirectoryId, treeVars, applyVars, registryVars,
                   previewVars>>

\* one resolver call at a time
Next == NextOn({"c1"}, PathLists(MaxPaths))

Spec == Init /\ [][Next]_vars

\* a second call may start while the first is in flight
NextOverlap == NextOn(CallIds, PathLists(MaxOverlapPaths))

SpecOverlap == Init /\ [][NextOverlap]_vars

----------------------------------------------------------------------------
(* The tree builder's steps                                                *)

ResolverIdle ==
    /\ directories = <<PathDir, UploadedDir>>
    /\ baseEndpoint = <<"/">>
    /\ uploadedFiles = InitialStore
    /\ failedFiles = {}
    /\ calls = [c \in CallIds |-> IdleCall]
    /\ lastReturn = NoReturn

\* one iteration of the loop of buildTreeFromZip / buildTreeFromFolder that
\* reaches addToTree(tree, filePath, false); the content of the entry is then
\* read and, unless the reading throws, kept as files[filePath]
buildTreeStep(filePath, read) ==
    /\ treeLast.n < MaxInserts
    /\ tree' = addToTree(tree, filePath, FALSE)
    /\ treeLast' = [n |-> treeLast.n + 1, filePath |-> filePath, before |-> tree,
                    inserted |-> Append(treeLast.inserted, filePath),
                    files |-> IF read THEN treeLast.files \cup {filePath}
                              ELSE treeLast.files]
    /\ UNCHANGED <<directories, selectedDirectoryId, resolverVars, applyVars,
                   registryVars, previewVars>>

InitTree == ResolverIdle /\ TreeInit /\ AppIdle /\ PreviewIdle

NextTree == \E filePath \in TreePaths, read \in BOOLEAN : buildTreeStep(filePath, read)

SpecTree == InitTree /\ [][NextTree]_vars

----------------------------------------------------------------------------
(* The patch input and the Apply button: steps                             *)
(*                                                                         *)
(* The patch in the textarea is either blank or a patch that only creates  *)
(* files: for both, generatePatchPreview returns before it reaches the     *)
(* content resolver (at its checks of the patch text, of the source and of *)
(* requiredFilesRelative.size).                                            *)

\* the input event of the patch textarea: the debounced preview is scheduled
inputPatch(text) ==
    /\ phase = "ready"
    /\ BurstOpen
    /\ text # patchInput
    /\ patchInput' = text
    /\ debounceTimer' = TRUE
    /\ quiet' = Triggered(quiet)
    /\ UNCHANGED <<directories, selectedDirectoryId, resolverVars, treeVars,
                   patchContent, applyStatus, applyButtonDisabled, apply,
                   registryVars, previewStatus, patchPreview, cycles, previewLast>>

\* the calls of generatePatchPreview that await, once a new call has started
Superseded == [c \in CallIds |-> IF cycles[c].pc = "idle" THEN cycles[c]
                                  ELSE [cycles[c] EXCEPT !.superseded = TRUE]]

\* the debounce timer fires: state.patchContent is set; generatePatchPreview
\* clears the preview and both status lines and runs up to its return before
\* the resolver or to its await of the resolver; updateApplyButtonState of
\* main.js sets the button
debouncedPreviewOn(slots) ==
    /\ debounceTimer
    /\ TimerDue(quiet)
    /\ lastReturn.pc = "idle"
    /\ debounceTimer' = FALSE
    /\ quiet' = IF quiet.since < 0 THEN quiet ELSE [quiet EXCEPT !.fired = @ + 1]
    /\ patchContent' = patchInput
    /\ applyStatus' = NoStatus
    /\ applyButtonDisabled' =
          MainButtonDisabled(directories, selectedDirectoryId, patchInput)
    /\ patchPreview' = <<>>
    /\ LET early == EarlyStatus(directories, selectedDirectoryId, patchInput)
           patches == parsePatch(patchInput)
           required == requiredFilesRelative(patches)
           c == FreeSlot(slots)
       IN  IF early # NoStatus
           THEN /\ previewStatus' = early
                /\ failedFiles' = {}
                /\ cycles' = Superseded
                /\ previewLast' = [NoCycle EXCEPT !.stage = "early", !.text = patchInput]
                /\ UNCHANGED <<directories, baseEndpoint, uploadedFiles, calls,
                               lastReturn>>
           ELSE /\ c \in slots
                /\ fetchPatchRequiredFiles(c, selectedDirectoryId, required)
                /\ previewStatus' = Status(MsgFetching(Len(required)), FALSE)
                /\ cycles' = [Superseded EXCEPT ![c] =
                       [pc |-> "awaiting", text |-> patchInput, patches |-> patches,
                        dirType |-> FindDir(directories, selectedDirectoryId).type,
                        superseded |-> FALSE]]
                /\ previewLast' = [NoCycle EXCEPT !.stage = "awaiting", !.text = patchInput]
    /\ UNCHANGED <<selectedDirectoryId, treeVars, patchInput, apply, registryVars>>

\* the debounced preview when its resolver calls may run in either slot
debouncedPreview == debouncedPreviewOn(CallIds)

\* generatePatchPreview resumes from its await of the resolver with the map:
\* the file blocks are rendered, the final status is set, and
\* updateApplyButtonState(dir?.type) of patcher.js sets the button and the
\* apply status
previewResumes(c) ==
    /\ lastReturn.pc = "returned"
    /\ cycles[c].pc = "awaiting"
    /\ calls[c].pc = "idle"
    /\ LET cyc == cycles[c]
           blocks == PreviewBlocks(cyc.patches, lastReturn.results)
           final == FinalStatus(FilesWithErrors(blocks), failedFiles)
       IN  /\ patchPreview' = Rendered(patchPreview, blocks, cyc.superseded)
           /\ previewStatus' = Rendered(previewStatus, final, cyc.superseded)
           /\ applyButtonDisabled' = PatcherButtonDisabled(cyc.dirType, patchContent)
           /\ applyStatus' = PatcherStatus(cyc.dirType, patchContent, applyStatus)
           /\ cycles' = [cycles EXCEPT ![c] = IdleCycle]
           /\ previewLast' = [stage |-> "rendered", text |-> cyc.text,
                              returned |-> lastReturn,
                              errors |-> FilesWithErrors(blocks),
                              superseded |-> cyc.superseded]
    /\ lastReturn' = NoReturn
    /\ UNCHANGED <<directories, selectedDirectoryId, baseEndpoint, uploadedFiles,
                   failedFiles, calls, treeVars, patchContent, patchInput,
                   debounceTimer, apply, registryVars, quiet>>

\* a click on the item of a source that is not the selected one
selectSource(id) ==
    /\ phase = "ready"
    /\ BurstOpen
    /\ HasDir(directories, id)
    /\ selectedDirectoryId # id
    /\ selectedDirectoryId' = id
    /\ storage' = Saved(directories, id)
    /\ applyButtonDisabled' = MainButtonDisabled(directories, id, patchInput)
    /\ debounceTimer' = TRUE
    /\ quiet' = Triggered(quiet)
    /\ regLast' = [NoOp EXCEPT !.op = "select", !.id = id,
                               !.selBefore = selectedDirectoryId, !.saved = TRUE]
    /\ UNCHANGED <<directories, resolverVars, treeVars, patchContent, patchInput,
                   applyStatus, apply, phase, clock, tasks, previewStatus,
                   patchPreview, cycles, previewLast>>

\* the applyPatch call returns: its finally block refreshes the button with
\* updateApplyButtonState(dir.type) of patcher.js
ApplyFinished(status, outcome, data) ==
    LET final == PatcherStatus(apply.dirType, patchContent, status)
    IN  /\ applyStatus' = final
        /\ applyButtonDisabled' = PatcherButtonDisabled(apply.dirType, patchContent)
        /\ apply' = [apply EXCEPT !.pc = "idle", !.outcome = outcome,
                                  !.data = data, !.reported = final]

\* applyPatch(patchContent), called with the value of the textarea, up to its
\* return on a failed precondition or to the await of the transport
applyPatch ==
    /\ phase = "ready"
    /\ apply.pc = "idle"
    /\ LET pre == ApplyPrecondition(directories, selectedDirectoryId, patchInput)
           call == [IdleApply EXCEPT !.patchArg = patchInput,
                                     !.sel = selectedDirectoryId,
                                     !.dirs = directories,
                                     !.enabled = ~applyButtonDisabled]
       IN  IF pre # Null
           THEN /\ applyStatus' = Status(pre, TRUE)
                /\ apply' = [call EXCEPT !.outcome = "precondition",
                                         !.reported = Status(pre, TRUE)]
                /\ UNCHANGED applyButtonDisabled
           ELSE /\ applyStatus' = Status(MsgApplying, FALSE)
                /\ applyButtonDisabled' = TRUE
                /\ apply' = [call EXCEPT
                       !.pc = "fetching",
                       !.dirType = FindDir(directories, selectedDirectoryId).type,
                       !.fetches = <<ApplyUrl(baseEndpoint)>>]
    /\ UNCHANGED <<directories, selectedDirectoryId, resolverVars, treeVars,
                   patchContent, patchInput, debounceTimer, registryVars,
                   previewVars>>

\* the pending fetch of the apply request settles
applyFetchSettles(outcome, m) ==
    /\ apply.pc = "fetching"
    /\ LET k == Len(apply.fetches)
           url == apply.fetches[k]
           replied == [apply EXCEPT !.replies = Append(apply.replies, outcome)]
       IN  IF k = 1 /\ FallsBack(url, outcome)
           THEN /\ apply' = [replied EXCEPT !.fetches = Append(apply.fetches, HttpUrl(url))]
                /\ UNCHANGED <<applyStatus, applyButtonDisabled>>
           ELSE IF outcome = "throw"
           THEN /\ applyStatus' = PatcherStatus(apply.dirType, patchContent,
                                                Status(MsgRequestError(m), TRUE))
                /\ applyButtonDisabled' =
                      PatcherButtonDisabled(apply.dirType, patchContent)
                /\ apply' = [replied EXCEPT !.pc = "idle", !.outcome = "threw",
                                            !.reported = applyStatus']
           ELSE /\ apply' = [replied EXCEPT !.pc = "body"]
                /\ UNCHANGED <<applyStatus, applyButtonDisabled>>
    /\ UNCHANGED <<directories, selectedDirectoryId, resolverVars, treeVars,
                   patchContent, patchInput, debounceTimer, registryVars,
                   previewVars>>

ApplyResponseOk == apply.replies[Len(apply.replies)] = "ok"

\* response.status
ApplyResponseStatus == IF ApplyResponseOk THEN "200" ELSE StatusNotOk

\* response.json() rejects: the catch block, then the finally block
applyReadJsonThrows(m) ==
    /\ apply.pc = "body"
    /\ ApplyFinished(Status(MsgRequestError(m), TRUE), "unparsable", apply.data)
    /\ UNCHANGED <<directories, selectedDirectoryId, resolverVars, treeVars,
                   patchContent, patchInput, debounceTimer, registryVars,
                   previewVars>>

\* response.json() resolves to data: the status is set from it, then the
\* finally block runs
applyReadJson(data) ==
    /\ apply.pc = "body"
    /\ IF ApplyResponseOk /\ data.success = "true"
       THEN ApplyFinished(Status(MsgApplied(AppliedCount(data)), FALSE),
                          "success", data)
       ELSE ApplyFinished(
                Status(MsgApplyFailed(OrElse(data.error, MsgStatus(ApplyResponseStatus)),
                                      AppliedCount(data)), TRUE),
                "failure", data)
    /\ UNCHANGED <<directories, selectedDirectoryId, resolverVars, treeVars,
                   patchContent, patchInput, debounceTimer, registryVars,
                   previewVars>>

\* the registries the Apply button is exercised on
ApplyRegistries == {<<>>, <<PathDir, UploadedDir, NoPathDir>>}

InitApply ==
    /\ directories \in ApplyRegistries
    /\ selectedDirectoryId = RenderSelection(directories, NoId)
    /\ baseEndpoint \in Endpoints
    /\ uploadedFiles = InitialStore
    /\ failedFiles = {}
    /\ calls = [c \in CallIds |-> IdleCall]
    /\ lastReturn = NoReturn
    /\ TreeInit
    /\ patchContent = <<>>
    /\ patchInput = <<>>
    /\ debounceTimer = FALSE
    /\ applyStatus = NoStatus
    /\ applyButtonDisabled = TRUE
    /\ apply = IdleApply
    /\ PreviewIdle
    /\ storage = Snapshot(baseEndpoint, directories, selectedDirectoryId, {})
    /\ phase = "ready"
    /\ clock = FirstClock
    /\ tasks = {}
    /\ regLast = NoOp

NextApply ==
    \/ \E text \in PatchTexts : inputPatch(text)
    \/ debouncedPreview
    \/ \E id \in {d.id : d \in Range(directories)} : selectSource(id)
    \/ applyPatch
    \/ \E outcome \in {"throw", "notok", "ok"}, m \in ThrownMessages :
          applyFetchSettles(outcome, m)
    \/ \E m \in ThrownMessages : applyReadJsonThrows(m)
    \/ \E data \in ApplyAnswers : applyReadJson(data)

SpecApply == InitApply /\ [][NextApply]_vars

----------------------------------------------------------------------------
(* The source registry: steps                                              *)
(*                                                                         *)
(* A handler that awaits (a directory fetch, the reading of an archive or  *)
(* of a folder) leaves a task; the task's completion is the rest of the    *)
(* handler.  A write to the persistent stores is one step with the handler *)
(* that makes it.                                                          *)

\* `Server responded with status ${response.status}`, stored in dir.error
MsgDirStatus == <<"Server responded with status ", StatusNotOk>>

\* `Network error fetching directory structure: ${error.message}`
MsgDirNetwork(m) == <<"Network error fetching directory structure: ">> \o m

MsgDirNoPath == <<"No path specified for this server directory">>

\* `Failed to process zip file: ${err.message}` and its folder counterpart
MsgUploadFailed(kind, m) ==
    (IF kind = "zip" THEN <<"Failed to process zip file: ">>
     ELSE <<"Failed to process folder upload: ">>) \o m

\* the error message fetchDirectoryStructure stores for a response that is
\* not a success: data.error or the status line, rewritten for a refusal of
\* permission and for status 404
DirErrorMsg(status, dataError, path) ==
    LET errorMsg == OrElse(dataError, <<"Server responded with status ", status>>)
    IN  IF Includes(errorMsg, "permission denied")
        THEN <<"Permission denied: The server cannot access ">> \o path
                 \o <<". Ensure the server has read permissions.">>
        ELSE IF status = "404" THEN <<"Directory not found: ">> \o path
        ELSE errorMsg

\* the body of an answer of /api/directory
DirAnswer(status, root, dataTree, error) ==
    [status |-> status, root |-> root, tree |-> dataTree, error |-> error]

\* the answers of /api/directory the registry is exercised on
DirRoots == {DirAnswer(StatusNotOk, RootPath, ServerTree, Undefined)}

\* path.trim().split(/[\\/]/).pop() || `path-${dirId}`
PathName(path, dirId) ==
    LET segs == SplitSlash(path)
    IN  OrElse(IF segs = <<>> THEN <<>> ELSE segs[Len(segs)],
               <<"path-">> \o NumToString(dirId))

\* the name a new local source gets: the archive's file name without .zip,
\* or `folder-${dirId}`
UploadName(kind, dirId) ==
    IF kind = "zip" THEN <<"archive">> ELSE <<"folder-">> \o NumToString(dirId)

\* the name an ingestion writes: the archive's file name without .zip, or
\* the base folder of the file list
IngestedName(kind, dirId) ==
    IF kind = "zip" THEN <<"archive">> ELSE <<"project">>

\* the indexes of the object store: createObjectStore(STORE_NAME,
\* { keyPath: 'key' }) is all that onupgradeneeded does
StoreIndexes == {}

\* the message of the NotFoundError that store.index(name) throws
MsgIndexNotFound == <<"The specified index was not found.">>

\* the keys that start with `${dirId}:` are deleted
ClearUploadedFilesForDir(store, dirId) ==
    LET prefix == NumToString(dirId) \o <<":">>
        kept == {k \in DOMAIN store :
                    ~(Len(k) >= Len(prefix) /\ SubSeq(k, 1, Len(prefix)) = prefix)}
    IN  [k \in kept |-> store[k]]

\* a clearing that skips the look-up of the index
ClearWithoutIndex(store, dirId) ==
    [threw |-> FALSE, store |-> ClearUploadedFilesForDir(store, dirId)]

\* the outcome of clearUploadedFilesForDir: store.index('key') throws when the store
\* has no index of that name, and the promise is rejected before the cursor
\* over the keys of the source is opened
ClearOutcome(store, dirId) ==
    IF "key" \notin StoreIndexes THEN [threw |-> TRUE, store |-> store]
    ELSE [threw |-> FALSE, store |-> ClearUploadedFilesForDir(store, dirId)]

\* putUploadedFile(dirId, filePath, content)
PutUploadedFile(store, dirId, filePath, content) ==
    MapSet(store, DbKey(dirId, filePath), content)

\* what the persistent stores may hold at start-up
PersistedSelections == {Null, <<"null">>, <<"2">>, <<"7">>}
PersistedRegistries ==
    {<<>>, SavedDirs(<<NoPathDir>>), SavedDirs(<<PathDir, UploadedDir>>)}
PersistedEndpoints == {Null, <<"https://", "host">>}

\* the tasks of the given source
TasksOf(id) == {t \in tasks : t.dirId = id}

\* state.js at import, before DOMContentLoaded
InitRegistry ==
    /\ directories = <<>>
    /\ selectedDirectoryId = NoId
    /\ baseEndpoint = <<"/">>
    /\ uploadedFiles = InitialStore
    /\ failedFiles = {}
    /\ calls = [c \in CallIds |-> IdleCall]
    /\ lastReturn = NoReturn
    /\ TreeInit
    /\ patchContent = <<>>
    /\ patchInput = <<"diff">>
    /\ debounceTimer = FALSE
    /\ applyStatus = NoStatus
    /\ applyButtonDisabled = FALSE
    /\ apply = IdleApply
    /\ PreviewIdle
    /\ \E e \in PersistedEndpoints, dirs \in PersistedRegistries,
          sel \in PersistedSelections :
          storage = [endpoint |-> e, selectedId |-> sel, directories |-> dirs,
                     failedFiles |-> {}]
    /\ phase = "boot"
    /\ clock = FirstClock
    /\ tasks = {}
    /\ regLast = NoOp

\* loadStateFromLocalStorage()
loadStateFromLocalStorage ==
    /\ phase = "boot"
    /\ phase' = "loaded"
    /\ baseEndpoint' = LoadEndpoint(storage.endpoint)
    /\ directories' = LoadedDirs(storage.directories)
    /\ selectedDirectoryId' = LoadSelection(storage.selectedId, directories')
    /\ failedFiles' = storage.failedFiles
    /\ patchContent' = <<>>
    /\ regLast' = [NoOp EXCEPT !.op = "load"]
    /\ UNCHANGED <<uploadedFiles, calls, lastReturn, treeVars, patchInput,
                   debounceTimer, applyStatus, applyButtonDisabled, apply,
                   storage, clock, tasks, previewVars>>

\* the rest of the DOMContentLoaded handler: initializePatcher() and the first
\* renderDirectoriesList(), after which the listeners are in place
renderDirectoriesList ==
    /\ phase = "loaded"
    /\ phase' = "ready"
    /\ selectedDirectoryId' = RenderSelection(directories, selectedDirectoryId)
    /\ storage' = IF RenderSaves(directories, selectedDirectoryId)
                  THEN Saved(directories, selectedDirectoryId')
                  ELSE storage
    /\ applyButtonDisabled' =
          MainButtonDisabled(directories, selectedDirectoryId', patchInput)
    /\ regLast' = [NoOp EXCEPT !.op = "render",
                               !.saved = RenderSaves(directories, selectedDirectoryId)]
    /\ UNCHANGED <<directories, resolverVars, treeVars, patchContent, patchInput,
                   debounceTimer, applyStatus, apply, clock, tasks, previewVars>>

\* the add-path, zip and folder handlers up to their first await: the source
\* is pushed and selected, the list rendered, and fetchDirectoryStructure /
\* handleZipUpload / handleFolderUpload started
addSource(kind, path) ==
    /\ phase = "ready"
    /\ clock < FirstClock + MaxAdds
    /\ Cardinality(tasks) < MaxTasks
    /\ LET dirId == clock
           newDir == IF kind = "path"
                     THEN [id |-> dirId, type |-> "path", path |-> Trim(path),
                           error |-> Null, name |-> PathName(Trim(path), dirId),
                           tree |-> Null]
                     ELSE [id |-> dirId, type |-> "uploaded", path |-> Undefined,
                           error |-> Null, name |-> UploadName(kind, dirId),
                           tree |-> NoEntries]
       IN  /\ directories' = PushDir(directories, newDir)
           /\ selectedDirectoryId' = RenderSelection(directories', dirId)
           /\ storage' = IF RenderSaves(directories', dirId)
                         THEN Saved(directories', selectedDirectoryId')
                         ELSE storage
           /\ applyButtonDisabled' =
                 MainButtonDisabled(directories', selectedDirectoryId', patchInput)
           /\ tasks' = tasks \cup {[kind |-> kind, dirId |-> dirId]}
           /\ regLast' = [op |-> "add", id |-> dirId, dirsBefore |-> directories,
                          selBefore |-> selectedDirectoryId,
                          saved |-> RenderSaves(directories', dirId),
                          fetched |-> (kind = "path"), returned |-> "none",
                          read |-> FALSE]
    /\ clock' = clock + 1
    /\ UNCHANGED <<resolverVars, treeVars, patchContent, patchInput,
                   debounceTimer, applyStatus, apply, phase, previewVars>>

\* a click on the Fetch/Update button of a server source:
\* fetchDirectoryStructure(dir.id) up to its await of the transport, or, for a
\* source without path, the whole handler
updateSource(id) ==
    /\ phase = "ready"
    /\ HasDir(directories, id)
    /\ FindDir(directories, id).type = "path"
    /\ TasksOf(id) = {}
    /\ Cardinality(tasks) < MaxTasks
    /\ IF Truthy(FindDir(directories, id).path)
       THEN /\ tasks' = tasks \cup {[kind |-> "update", dirId |-> id]}
            /\ regLast' = [NoOp EXCEPT !.op = "update", !.id = id, !.fetched = TRUE]
            /\ UNCHANGED <<directories, selectedDirectoryId, storage,
                           debounceTimer, applyButtonDisabled, quiet>>
       ELSE /\ directories' = UpdateDir(directories, id, Keep, MsgDirNoPath)
            /\ selectedDirectoryId' = RenderSelection(directories', selectedDirectoryId)
            /\ storage' = Saved(directories', selectedDirectoryId')
            /\ debounceTimer' = (debounceTimer \/ id = selectedDirectoryId')
            /\ quiet' = IF id = selectedDirectoryId' THEN Triggered(quiet) ELSE quiet
            /\ applyButtonDisabled' =
                  MainButtonDisabled(directories', selectedDirectoryId', patchInput)
            /\ tasks' = tasks
            /\ regLast' = [NoOp EXCEPT !.op = "update", !.id = id, !.saved = TRUE,
                                       !.dirsBefore = directories,
                                       !.returned = "false"]
    /\ UNCHANGED <<resolverVars, treeVars, patchContent, patchInput, applyStatus,
                   apply, phase, clock, previewStatus, patchPreview, cycles,
                   previewLast>>

\* the rest of a handler that awaited: the outcome is written to the source,
\* the state is saved, the list rendered
TaskCompletes(t, path, newTree, name, error, preview, returned, read) ==
    /\ directories' =
          UpdateName(UpdateTree(UpdateDir(directories, t.dirId, path, error),
                                t.dirId, newTree),
                     t.dirId, name)
    /\ selectedDirectoryId' = RenderSelection(directories', selectedDirectoryId)
    /\ storage' = Saved(directories', selectedDirectoryId')
    /\ debounceTimer' = (debounceTimer \/ preview)
    /\ quiet' = IF preview THEN Triggered(quiet) ELSE quiet
    /\ applyButtonDisabled' =
          MainButtonDisabled(directories', selectedDirectoryId', patchInput)
    /\ tasks' = tasks \ {t}
    /\ regLast' = [NoOp EXCEPT !.op = "done", !.id = t.dirId, !.saved = TRUE,
                               !.dirsBefore = directories, !.returned = returned,
                               !.read = read]

\* the directory fetch of an add-path or Update handler settles:
\* fetchDirectoryStructure writes the outcome to the source and saves, the
\* handler renders the list and schedules the preview; the outcome is "ok"
\* for an OK response whose body reports success, "notok" for any other
\* response whose body was read, "throw" when the transport or the reading of
\* the body threw
fetchDirectoryStructureDone(t, outcome, data, m) ==
    /\ t \in tasks
    /\ t.kind \in {"path", "update"}
    /\ LET preview == t.kind = "path" \/ t.dirId = selectedDirectoryId
           path == IF HasDir(directories, t.dirId)
                   THEN FindDir(directories, t.dirId).path ELSE Undefined
       IN  IF outcome = "ok"
           THEN TaskCompletes(t, data.root, data.tree, Keep, Undefined, preview, "true", FALSE)
           ELSE IF outcome = "notok"
           THEN TaskCompletes(t, Keep, NoEntries, Keep,
                              DirErrorMsg(data.status, data.error, path), preview,
                              "false", FALSE)
           ELSE TaskCompletes(t, Keep, NoEntries, Keep, MsgDirNetwork(m), preview,
                              "false", FALSE)
    /\ UNCHANGED <<resolverVars, treeVars, patchContent, patchInput, applyStatus,
                   apply, phase, clock, previewStatus, patchPreview, cycles,
                   previewLast>>

\* the archive or folder of an upload handler was read (ok) or its reading
\* threw: handleZipUpload / handleFolderUpload write the tree and the name,
\* clear the stored content of the source, store the files and save, or record
\* the failure and save; the handler renders the list and schedules the preview
uploadDone(t, ok, m) ==
    /\ t \in tasks
    /\ t.kind \in {"zip", "folder"}
    /\ lastReturn.pc = "idle"
    /\ LET cleared == ClearOutcome(uploadedFiles, t.dirId)
       IN  IF ok /\ ~cleared.threw
           THEN /\ TaskCompletes(t, Keep, BuiltTree, IngestedName(t.kind, t.dirId),
                                 Undefined, TRUE, "none", TRUE)
                /\ uploadedFiles' =
                      PutUploadedFile(cleared.store, t.dirId, PathA, ContentAlpha)
           ELSE IF ok
           THEN /\ TaskCompletes(t, Keep, NoEntries, IngestedName(t.kind, t.dirId),
                                 MsgUploadFailed(t.kind, MsgIndexNotFound), TRUE,
                                 "none", TRUE)
                /\ uploadedFiles' = cleared.store
           ELSE /\ TaskCompletes(t, Keep, NoEntries, Keep,
                                 MsgUploadFailed(t.kind, m), TRUE, "none", FALSE)
                /\ UNCHANGED uploadedFiles
    /\ UNCHANGED <<baseEndpoint, failedFiles, calls, lastReturn, treeVars,
                   patchContent, patchInput, applyStatus, apply, phase, clock,
                   previewStatus, patchPreview, cycles, previewLast>>

\* a click on the Remove button of a source, confirmed
removeSource(id) ==
    /\ phase = "ready"
    /\ HasDir(directories, id)
    /\ directories' = RemoveDir(directories, id)
    /\ selectedDirectoryId' =
          RenderSelection(directories',
                          SelectionAfterRemove(directories', selectedDirectoryId, id))
    /\ storage' = Saved(directories', selectedDirectoryId')
    /\ debounceTimer' = (debounceTimer \/ selectedDirectoryId = id)
    /\ quiet' = IF selectedDirectoryId = id THEN Triggered(quiet) ELSE quiet
    /\ applyButtonDisabled' =
          MainButtonDisabled(directories', selectedDirectoryId', patchInput)
    /\ regLast' = [op |-> "remove", id |-> id, dirsBefore |-> directories,
                   selBefore |-> selectedDirectoryId, saved |-> TRUE,
                   fetched |-> FALSE, returned |-> "none", read |-> FALSE]
    /\ UNCHANGED <<resolverVars, treeVars, patchContent, patchInput, applyStatus,
                   apply, phase, clock, tasks, previewStatus, patchPreview, cycles,
                   previewLast>>

NextRegistry ==
    \/ loadStateFromLocalStorage
    \/ renderDirectoriesList
    \/ \E kind \in {"path", "zip", "folder"} : addSource(kind, RootPath)
    \/ \E id \in {d.id : d \in Range(directories)} : updateSource(id)
    \/ \E t \in tasks, outcome \in {"ok", "notok", "throw"}, data \in DirRoots :
          fetchDirectoryStructureDone(t, outcome, data, <<"Failed to fetch">>)
    \/ \E t \in tasks, ok \in BOOLEAN : uploadDone(t, ok, <<"Corrupted zip">>)
    \/ \E id \in {d.id : d \in Range(directories)} : removeSource(id)
    \/ \E id \in {d.id : d \in Range(directories)} : selectSource(id)

SpecRegistry == InitRegistry /\ [][NextRegistry]_vars

\* a skip that clears the tree of the source as a failed fetch does
LocalFetchClearing(dirs, id) ==
    UpdateTree(UpdateDir(dirs, id, Keep, Undefined), id, NoEntries)

\* the writes of fetchDirectoryStructure to a source of type 'uploaded':
\* delete dir.error
LocalFetch(dirs, id) == UpdateDir(dirs, id, Keep, Undefined)

\* fetchDirectoryStructure(dirId) for a source of type 'uploaded': the error
\* is deleted and true returned, before any request is built; nothing is
\* saved and nothing rendered
fetchDirectoryStructureLocal(id) ==
    /\ phase = "ready"
    /\ HasDir(directories, id)
    /\ FindDir(directories, id).type = "uploaded"
    /\ directories' = LocalFetch(directories, id)
    /\ regLast' = [NoOp EXCEPT !.op = "fetchLocal", !.id = id,
                               !.dirsBefore = directories, !.returned = "true"]
    /\ UNCHANGED <<selectedDirectoryId, resolverVars, treeVars, applyVars,
                   storage, phase, clock, tasks, previewVars>>

\* data.root when the server canonicalised the path
CanonicalRoot == <<"/", "srv", "/", "root">>

\* the answers of /api/directory the directory fetch is exercised on: two
\* successes with different trees, and failures with and without data.error
DirAnswers ==
    {DirAnswer("200", RootPath, ServerTree, Undefined),
     DirAnswer("200", CanonicalRoot, ServerTreeNew, Undefined),
     DirAnswer("404", Undefined, Undefined, Undefined),
     DirAnswer(StatusNotOk, Undefined, Undefined, <<"EACCES: ", "permission denied">>),
     DirAnswer("200", Undefined, Undefined, <<"Not a directory">>)}

\* the outcomes an answer can have: success needs an OK status
DirOutcomes(data) ==
    IF data.status = "200" /\ data.error = Undefined THEN {"ok", "throw"}
    ELSE {"notok", "throw"}

\* the steps of the registry with every kind of directory answer
NextSources ==
    \/ loadStateFromLocalStorage
    \/ renderDirectoriesList
    \/ \E kind \in {"path", "zip", "folder"} : addSource(kind, RootPath)
    \/ \E id \in {d.id : d \in Range(directories)} : updateSource(id)
    \/ \E id \in {d.id : d \in Range(directories)} : fetchDirectoryStructureLocal(id)
    \/ \E t \in tasks, data \in DirAnswers : \E outcome \in DirOutcomes(data) :
          fetchDirectoryStructureDone(t, outcome, data, <<"Failed to fetch">>)
    \/ \E t \in tasks, ok \in BOOLEAN : uploadDone(t, ok, <<"Corrupted zip">>)
    \/ \E id \in {d.id : d \in Range(directories)} : removeSource(id)

\* the start of a session whose stores hold a server source without path,
\* or a server source and a local one
InitSources ==
    /\ InitRegistry
    /\ storage.endpoint = Null
    /\ storage.directories # <<>>
    /\ storage.selectedId = <<"2">>

SpecSources == InitSources /\ [][NextSources]_vars

----------------------------------------------------------------------------
(* The store of uploaded files: steps                                      *)
(*                                                                         *)
(* The three calls of the store are made on their own, on every source id  *)
(* and path; regLast holds the call, the store before it and what it       *)
(* returned.                                                               *)

\* the ids the store is called with: 2 is a prefix of 21
StoreIds == {2, 21}

StorePaths == {PathA, PathDB}

StoreContents == {ContentAlpha, ContentOther}

StoreCall(op, dirId, filePath, got, threw) ==
    [op |-> op, id |-> dirId, filePath |-> filePath, storeBefore |-> uploadedFiles,
     got |-> got, threw |-> threw]

\* putUploadedFile(dirId, filePath, content)
putUploadedFile(dirId, filePath, content) ==
    /\ uploadedFiles' = PutUploadedFile(uploadedFiles, dirId, filePath, content)
    /\ regLast' = StoreCall("put", dirId, filePath, Undefined, FALSE)
    /\ UNCHANGED <<directories, selectedDirectoryId, baseEndpoint, failedFiles,
                   calls, lastReturn, treeVars, applyVars, storage, phase, clock,
                   tasks, previewVars>>

\* getUploadedFile(dirId, filePath)
getUploadedFile(dirId, filePath) ==
    /\ regLast' = StoreCall("get", dirId, filePath,
                            GetUploadedFile(uploadedFiles, dirId, filePath), FALSE)
    /\ UNCHANGED <<directories, selectedDirectoryId, resolverVars, treeVars,
                   applyVars, storage, phase, clock, tasks, previewVars>>

\* clearUploadedFilesForDir(dirId)
clearUploadedFilesForDir(dirId) ==
    /\ uploadedFiles' = ClearOutcome(uploadedFiles, dirId).store
    /\ regLast' = StoreCall("clear", dirId, <<>>, Undefined,
                            ClearOutcome(uploadedFiles, dirId).threw)
    /\ UNCHANGED <<directories, selectedDirectoryId, baseEndpoint, failedFiles,
                   calls, lastReturn, treeVars, applyVars, storage, phase, clock,
                   tasks, previewVars>>

InitStore ==
    /\ Init
    /\ baseEndpoint = <<"/">>

NextStore ==
    \/ \E dirId \in StoreIds, filePath \in StorePaths, content \in StoreContents :
          putUploadedFile(dirId, filePath, content)
    \/ \E dirId \in StoreIds, filePath \in StorePaths :
          getUploadedFile(dirId, filePath)
    \/ \E dirId \in StoreIds : clearUploadedFilesForDir(dirId)

SpecStore == InitStore /\ [][NextStore]_vars

----------------------------------------------------------------------------
(* The preview: steps                                                      *)
(*                                                                         *)
(* The textarea holds patches whose files have to be resolved, so that     *)
(* generatePatchPreview reaches the resolver and resumes with its map.     *)

\* the patch texts the preview is exercised on
PreviewTexts ==
    PatchTexts \cup {<<"diff foo">>, <<"diff", "diff foo">>,
                     <<"diff foo", "diff foo bare">>, <<"diff d/foo">>,
                     <<"diff -foo">>, <<"no diff">>}

\* the registries the preview is exercised on
PreviewRegistries == {<<>>, <<PathDir, UploadedDir>>}

InitPreviewOn(registries) ==
    /\ directories \in registries
    /\ selectedDirectoryId = RenderSelection(directories, NoId)
    /\ baseEndpoint = <<"/">>
    /\ uploadedFiles = InitialStore
    /\ failedFiles = {}
    /\ calls = [c \in CallIds |-> IdleCall]
    /\ lastReturn = NoReturn
    /\ TreeInit
    /\ patchContent = <<>>
    /\ patchInput = <<>>
    /\ debounceTimer = FALSE
    /\ applyStatus = NoStatus
    /\ applyButtonDisabled = TRUE
    /\ apply = IdleApply
    /\ PreviewIdle
    /\ storage = Snapshot(baseEndpoint, directories, selectedDirectoryId, {})
    /\ phase = "ready"
    /\ clock = FirstClock
    /\ tasks = {}
    /\ regLast = NoOp

InitPreview == InitPreviewOn(PreviewRegistries)

\* a step of a resolver call that a preview awaits
ResolverStep(slots) ==
    /\ \/ \E c \in slots : \E i \in calls[c].pending :
             \/ uploadedLookupDone(c, i, FALSE, <<>>)
             \/ \E m \in DbErrors : uploadedLookupDone(c, i, TRUE, m)
       \/ \E c \in slots, outcome \in {"throw", "notok", "ok"}, m \in ThrownMessages :
             tryFetchWithFallback(c, outcome, m)
       \/ \E c \in slots, text \in BodyTexts : readErrorText(c, text)
       \/ \E c \in slots, m \in ThrownMessages : readJsonThrows(c, m)
       \/ \E c \in slots : \E data \in DataFor(calls[c].absPaths) : readJson(c, data)
    /\ UNCHANGED <<selectedDirectoryId, treeVars, applyVars, registryVars,
                   previewVars>>

\* the steps of the program when the user edits the patch and selects sources
NextPreviewOn(slots, texts) ==
    \/ \E text \in texts : inputPatch(text)
    \/ debouncedPreviewOn(slots)
    \/ \E id \in {d.id : d \in Range(directories)} : selectSource(id)
    \/ ResolverStep(slots)
    \/ \E c \in slots : previewResumes(c)

\* one preview awaits the resolver at a time
NextPreview == NextPreviewOn({"c1"}, PreviewTexts)

SpecPreview == InitPreview /\ [][NextPreview]_vars

\* the patch texts of the previews that overlap
StaleTexts == {<<"diff foo">>, <<"diff d/foo">>}

\* a second preview may start while the first awaits the resolver
NextStale == NextPreviewOn(CallIds, StaleTexts)

SpecStale == InitPreview /\ [][NextStale]_vars

\* a server source whose last directory fetch failed
FailedDir == [id |-> 3, type |-> "path", path |-> RootPath, error |-> MsgDirStatus,
              name |-> <<"root">>, tree |-> NoEntries]

\* the registries and the patch texts the validation of the preview is
\* exercised on: no source, or a sound and a failed one; no text, white
\* space, a text that is no patch, a patch
ValidationRegistries == {<<>>, <<PathDir, FailedDir>>}
ValidationTexts == {<<>>, <<" ">>, <<"no diff">>, <<"diff foo">>}

InitValidation == InitPreviewOn(ValidationRegistries)

NextValidation == NextPreviewOn(CallIds, ValidationTexts)

SpecValidation == InitValidation /\ [][NextValidation]_vars

----------------------------------------------------------------------------
(* Reloading the page                                                      *)

\* the page is reloaded: the module state of state.js is constructed anew,
\* timers and pending calls are gone, the stores keep what was saved
reload ==
    /\ phase = "ready"
    /\ phase' = "boot"
    /\ directories' = <<>>
    /\ selectedDirectoryId' = NoId
    /\ baseEndpoint' = <<"/">>
    /\ failedFiles' = {}
    /\ calls' = [c \in CallIds |-> IdleCall]
    /\ lastReturn' = NoReturn
    /\ patchContent' = <<>>
    /\ patchInput' = <<>>
    /\ debounceTimer' = FALSE
    /\ applyStatus' = NoStatus
    /\ applyButtonDisabled' = TRUE
    /\ apply' = IdleApply
    /\ previewStatus' = NoStatus
    /\ patchPreview' = <<>>
    /\ cycles' = [c \in CallIds |-> IdleCycle]
    /\ previewLast' = NoCycle
    /\ tasks' = {}
    /\ regLast' = NoOp
    /\ UNCHANGED <<uploadedFiles, treeVars, storage, clock, quiet>>

\* the patch text of the previews before a reload
ReloadTexts == {<<"diff foo">>}

\* the steps of the program when the page may be reloaded
NextReload ==
    \/ NextPreviewOn({"c1"}, ReloadTexts)
    \/ reload
    \/ loadStateFromLocalStorage
    \/ renderDirectoriesList

SpecReload == InitPreview /\ [][NextReload]_vars

----------------------------------------------------------------------------
(* The debounce timer: steps                                               *)
(*                                                                         *)
(* Time advances in steps of Tick while the timer is pending.  The patches *)
(* are those for which generatePatchPreview returns before the resolver.   *)

\* the state of a preview that was never generated, with the time observed
InitDebounce ==
    /\ directories = <<PathDir, UploadedDir>>
    /\ selectedDirectoryId = RenderSelection(directories, NoId)
    /\ baseEndpoint = <<"/">>
    /\ uploadedFiles = InitialStore
    /\ failedFiles = {}
    /\ calls = [c \in CallIds |-> IdleCall]
    /\ lastReturn = NoReturn
    /\ TreeInit
    /\ patchContent = <<>>
    /\ patchInput = <<>>
    /\ debounceTimer = FALSE
    /\ applyStatus = NoStatus
    /\ applyButtonDisabled = TRUE
    /\ apply = IdleApply
    /\ previewStatus = NoStatus
    /\ patchPreview = <<>>
    /\ cycles = [c \in CallIds |-> IdleCycle]
    /\ previewLast = NoCycle
    /\ quiet = [since |-> 0, burst |-> 0, fired |-> 0]
    /\ storage = Snapshot(baseEndpoint, directories, selectedDirectoryId, {})
    /\ phase = "ready"
    /\ clock = FirstClock
    /\ tasks = {}
    /\ regLast = NoOp

\* time passes while the timer set by setTimeout(..., wait) is pending
tick ==
    /\ debounceTimer
    /\ quiet.since >= 0
    /\ quiet.since < DebounceWait
    /\ quiet' = [quiet EXCEPT !.since = @ + Tick]
    /\ UNCHANGED <<directories, selectedDirectoryId, resolverVars, treeVars,
                   applyVars, registryVars, previewStatus, patchPreview, cycles,
                   previewLast>>

NextDebounce ==
    \/ \E text \in PatchTexts : inputPatch(text)
    \/ \E id \in {d.id : d \in Range(directories)} : selectSource(id)
    \/ tick
    \/ debouncedPreviewOn({"c1"})

\* time passes, and a timer that is due runs its callback
SpecDebounce ==
    /\ InitDebounce
    /\ [][NextDebounce]_vars
    /\ WF_vars(tick)
    /\ WF_vars(debouncedPreviewOn({"c1"}))

----------------------------------------------------------------------------
(* Vocabulary of the properties                                            *)

\* the resolver has just returned; lastReturn is what its caller receives
Returns == lastReturn.pc = "returned"

ReturnsRemote == Returns /\ lastReturn.type = "path"

ReturnsLocal == Returns /\ lastReturn.type = "uploaded"

ReturnsUnknown == Returns /\ ~HasDir(directories, lastReturn.dirId)

\* the batch response was parsed and is successful overall
BatchSucceeded == lastReturn.data.success /\ lastReturn.data.hasFiles

\* the per-file result the batch response holds for the i-th requested path
ResultAt(i) == lastReturn.data.files[lastReturn.absPaths[i]]

ResolvedAt(i) == lastReturn.results[lastReturn.filePaths[i]]

Requested == 1..Len(lastReturn.filePaths)

\* an entry that carries no content and an error message
IsErrorEntry(e) == e.content = Null /\ Truthy(e.error)

\* a message that indicates "not found"
MeansNotFound(msg) == Truthy(msg) /\ Includes(msg, NotFoundTok)

\* the absolute path that root /root and each relative path of the model make
JoinedWithRoot(p) ==
    CASE p = PathA -> <<"/", "root", "/", "a.txt">>
      [] p = PathSlashA -> <<"/", "root", "/", "a.txt">>
      [] p = PathDB -> <<"/", "root", "/", "d", "/", "b.txt">>

----------------------------------------------------------------------------
(* C1..C10: the content resolver                                           *)

C2_MissingResultIsError ==
    (ReturnsRemote /\ BatchSucceeded) =>
        \A i \in Requested :
            ~ResultAt(i).present =>
                /\ IsErrorEntry(ResolvedAt(i))
                /\ ~MeansNotFound(ResolvedAt(i).error)
                /\ lastReturn.filePaths[i] \in lastReturn.failed

\* C3 as claimed: after a successful batch response, a per-file non-success
\* that does not indicate "not found" (a missing message included) resolves to
\* an error outcome and is in the FailureSet when the resolver returns.
C3_OtherFailureIsError ==
    (ReturnsRemote /\ BatchSucceeded) =>
        \A i \in Requested :
            (ResultAt(i).present /\ ~ResultAt(i).success
                /\ ~MeansNotFound(ResultAt(i).error)) =>
                /\ IsErrorEntry(ResolvedAt(i))
                /\ lastReturn.filePaths[i] \in lastReturn.failed

\* C4: a remote call looks each path p up under the join of the root and p
\* (/root and a.txt give /root/a.txt); a per-file non-success whose message
\* indicates "not found" makes p, under its own relative key, an entry with
\* null content and that message, and the call does not put p in the FailureSet.
C4_RemoteNotFound ==
    ReturnsRemote =>
        /\ \A i \in Requested :
              lastReturn.absPaths[i] = JoinedWithRoot(lastReturn.filePaths[i])
        /\ BatchSucceeded =>
              \A i \in Requested :
                  LET given == lastReturn.data.files[JoinedWithRoot(lastReturn.filePaths[i])]
                  IN  (given.present /\ ~given.success /\ MeansNotFound(given.error)) =>
                          /\ ResolvedAt(i) = Entry(Null, given.error)
                          /\ PreviewClass(ResolvedAt(i)) = "absent"
                          /\ ~lastReturn.overlapped =>
                                lastReturn.filePaths[i] \notin lastReturn.failed

\* C4 witness: a.txt is requested from the source rooted at /root and the
\* response says "not found" under /root/a.txt, while another path failed.
C4_Witness ==
    /\ ReturnsRemote /\ BatchSucceeded
    /\ \E i \in Requested :
          /\ lastReturn.filePaths[i] = PathA
          /\ lastReturn.absPaths[i] = <<"/", "root", "/", "a.txt">>
          /\ ResultAt(i) = FailResult(<<"ENOENT: file ", NotFoundTok>>)
          /\ ResolvedAt(i).content = Null
          /\ PathA \notin lastReturn.failed
    /\ lastReturn.failed # {}

\* C5: when the batch request of a remote call fails as a whole (the fetch
\* throws, the status is not OK, the body cannot be parsed, or the response
\* reports no overall success), every requested path gets an entry with null
\* content and an error message and is in the FailureSet when the call returns.
C5_TransportFailure ==
    (ReturnsRemote /\ Len(lastReturn.filePaths) > 0 /\ ~BatchSucceeded) =>
        /\ \A i \in Requested :
              /\ IsErrorEntry(ResolvedAt(i))
              /\ lastReturn.filePaths[i] \in lastReturn.failed
              /\ lastReturn.filePaths[i] \in failedFiles
        /\ \A i, j \in Requested : ResolvedAt(i) = ResolvedAt(j)

\* C5 witness: two paths were requested and the service answered with a non-OK
\* status.
C5_Witness ==
    /\ ReturnsRemote
    /\ Len(lastReturn.filePaths) = 2
    /\ lastReturn.replies = <<"notok">>
    /\ lastReturn.failed = Range(lastReturn.filePaths)

\* C6: for a local source, a requested path whose key is absent from the store,
\* and whose lookup did not throw, resolves to null content with the message
\* "File not found in uploaded data ...", and the call does not put it in the
\* FailureSet.
C6_LocalNotFound ==
    ReturnsLocal =>
        \A i \in Requested :
            (DbKey(lastReturn.dirId, lastReturn.filePaths[i]) \notin DOMAIN uploadedFiles
                /\ i \notin lastReturn.threw) =>
                /\ ResolvedAt(i) = Entry(Null, MsgUploadedNotFound)
                /\ PreviewClass(ResolvedAt(i)) = "absent"
                /\ ~lastReturn.overlapped =>
                      lastReturn.filePaths[i] \notin lastReturn.failed

\* C6 witness: d/b.txt is not in the store of the local source; it resolves to
\* not found and stays out of a FailureSet that holds another path.
C6_Witness ==
    /\ ReturnsLocal
    /\ \E i \in Requested :
          /\ lastReturn.filePaths[i] = PathDB
          /\ i \notin lastReturn.threw
          /\ ResolvedAt(i).content = Null
    /\ PathDB \notin lastReturn.failed
    /\ lastReturn.failed # {}

\* the store lookups that threw in the step being taken
NewlyThrown ==
    IF calls["c1"].pc # "lookups" THEN {}
    ELSE IF calls'["c1"].pc = "lookups" THEN calls'["c1"].threw \ calls["c1"].threw
    ELSE IF lastReturn'.pc = "returned" THEN lastReturn'.threw \ calls["c1"].threw
    ELSE {}

\* C7: for a local source, exactly the paths whose lookup threw resolve to a
\* "DB error" entry, each is added to the FailureSet in the step in which its
\* lookup throws, and every other requested path still gets its own result (its
\* stored content, or not found), in whatever order the lookups complete.
C7_LocalThrowIsolated ==
    /\ [](ReturnsLocal =>
            /\ DOMAIN lastReturn.results = Range(lastReturn.filePaths)
            /\ \A i \in Requested :
                  IF i \in lastReturn.threw
                  THEN /\ IsErrorEntry(ResolvedAt(i))
                       /\ PreviewClass(ResolvedAt(i)) = "error"
                  ELSE IF lastReturn.dirId = 2 /\ lastReturn.filePaths[i] = PathA
                  THEN ResolvedAt(i) = Entry(ContentAlpha, Null)
                  ELSE ResolvedAt(i) = Entry(Null, MsgUploadedNotFound))
    /\ [][\A i \in NewlyThrown : calls["c1"].filePaths[i] \in failedFiles']_vars

\* C7 witness: of the two lookups of one call the second one threw and the
\* first one returned the stored content.
C7_Witness ==
    /\ ReturnsLocal
    /\ Len(lastReturn.filePaths) = 2
    /\ lastReturn.threw = {2}
    /\ lastReturn.filePaths[1] = PathA
    /\ lastReturn.results[PathA] = Entry(ContentAlpha, Null)
    /\ lastReturn.failed = {lastReturn.filePaths[2]}

\* C8 as claimed: with a source id that is not in the registry, every requested
\* path resolves to an outcome that the preview classifies as an error.
C8_UnknownSourceIsError ==
    ReturnsUnknown =>
        \A i \in Requested : PreviewClass(ResolvedAt(i)) = "error"

\* C9: when a resolver call that overlapped no other call returns, the
\* FailureSet holds only paths requested in that call.
C9_FailureSetOfThisCall ==
    (Returns /\ ~lastReturn.overlapped) =>
        /\ lastReturn.failed \subseteq Range(lastReturn.filePaths)
        /\ failedFiles \subseteq Range(lastReturn.filePaths)

\* C9 witness: a call that overlapped no other returns with its own path in the
\* FailureSet.
C9_Witness ==
    /\ Returns /\ ~lastReturn.overlapped
    /\ Len(lastReturn.filePaths) = 1
    /\ failedFiles = Range(lastReturn.filePaths)

\* C10 as claimed: a remote call with a non-empty list, all of whose fetches
\* were answered, has sent exactly one request.
C10_ExactlyOneRequest ==
    (ReturnsRemote /\ Len(lastReturn.filePaths) > 0
        /\ \A k \in 1..Len(lastReturn.replies) : lastReturn.replies[k] # "throw") =>
        Len(lastReturn.fetches) = 1

\* C10 amended: a remote call with a non-empty list builds one batch of all the
\* requested paths joined with the root; it sends that batch once to
\* <endpoint>/api/files, and once more, with https:// replaced by http://,
\* exactly when the endpoint is absolute and the first attempt threw or was
\* answered with a non-OK status; never more than two requests.
C10_OneBatchAtMostTwice ==
    (ReturnsRemote /\ Len(lastReturn.filePaths) > 0) =>
        LET f == lastReturn.fetches
            batch == [i \in Requested |-> JoinedWithRoot(lastReturn.filePaths[i])]
        IN  /\ Len(f) \in {1, 2}
            /\ \A k \in 1..Len(f) : f[k].paths = batch
            /\ f[1].url = baseEndpoint \o <<"/api/files">>
            /\ Len(f) = 2 <=> (baseEndpoint # <<"/">> /\ lastReturn.replies[1] # "ok")
            /\ Len(f) = 2 => f[2].url = <<"http://", "host", "/api/files">>

\* C10 witness: the first attempt was answered with a non-OK status and the
\* batch went out a second time.
C10_Witness ==
    /\ ReturnsRemote
    /\ Len(lastReturn.fetches) = 2
    /\ lastReturn.replies[1] = "notok"
    /\ lastReturn.fetches[2].paths = lastReturn.fetches[1].paths

----------------------------------------------------------------------------
(* Vocabulary of the tree properties                                       *)

\* the non-empty segments of a path
Parts(p) == FilterBoolean(SplitSlash(p))

\* the non-empty segments joined by single slashes
Normalized(p) == JoinSlash(Parts(p))

\* addToTree has been called on the tree
Inserted == treeLast.n > 0

\* the key path of the last segment of the inserted path
FinalKey == Parts(treeLast.filePath)

IsFolderIn(t, key) == key \in DOMAIN t /\ t[key].type = "folder"
IsFileIn(t, key) == key \in DOMAIN t /\ t[key].type = "file"

\* the final segment was a folder, or an intermediate segment was a file,
\* before the call
Conflicts ==
    /\ FinalKey # <<>>
    /\ \/ IsFolderIn(treeLast.before, FinalKey)
       \/ \E i \in 1..(Len(FinalKey) - 1) :
             IsFileIn(treeLast.before, SubSeq(FinalKey, 1, i))

----------------------------------------------------------------------------
\* C19: after an insertion that meets no conflict, every intermediate segment
\* of the path (empty segments discarded) is a folder node and the final
\* segment is a file node whose path field is the normalized path.
C19_FileCarriesNormalizedPath ==
    (Inserted /\ FinalKey # <<>> /\ ~Conflicts) =>
        /\ \A i \in 1..(Len(FinalKey) - 1) : IsFolderIn(tree, SubSeq(FinalKey, 1, i))
        /\ IsFileIn(tree, FinalKey)
        /\ tree[FinalKey].path = Normalized(treeLast.filePath)

----------------------------------------------------------------------------
\* C20: an insertion whose final segment is already a folder, or one of whose
\* intermediate segments is already a file, leaves the tree exactly as it
\* was; an insertion under an existing folder adds the new node and keeps
\* every node the tree had (only a file at the final segment is replaced).
C20_ConflictLeavesTree ==
    Inserted =>
        /\ Conflicts => tree = treeLast.before
        /\ (~Conflicts /\ Len(FinalKey) > 1
              /\ IsFolderIn(treeLast.before, SubSeq(FinalKey, 1, Len(FinalKey) - 1))) =>
              /\ IsFileIn(tree, FinalKey)
              /\ \A k \in DOMAIN treeLast.before :
                    /\ k \in DOMAIN tree
                    /\ k # FinalKey => tree[k] = treeLast.before[k]

\* d/b.txt/c.txt was inserted into a tree whose folder d holds the file b.txt
C20_Witness ==
    /\ treeLast.filePath = PathDBC
    /\ IsFolderIn(treeLast.before, <<PathD>>)
    /\ IsFileIn(treeLast.before, <<PathD, <<"b.txt">>>>)
    /\ Conflicts

----------------------------------------------------------------------------
(* Vocabulary of the insertion-order property                              *)

RECURSIVE BuildFrom(_, _)
\* the tree after the paths of a list were inserted, in the order of the list
BuildFrom(t, list) ==
    IF list = <<>> THEN t
    ELSE BuildFrom(addToTree(t, Head(list), FALSE), Tail(list))

\* the names, the node types and the nesting of a tree
Shape(t) == [k \in DOMAIN t |-> t[k].type]

\* one path needs as a folder a name that the other path has as its file
ConflictingEntries(p, q) == Below(Parts(p), Parts(q)) \/ Below(Parts(q), Parts(p))

\* the orders in which n entries can be inserted
Orders(n) ==
    {f \in [1..n -> 1..n] : \A i, j \in 1..n : f[i] = f[j] => i = j}

Permuted(list, f) == [i \in 1..Len(list) |-> list[f[i]]]

\* the entries that conflict come in the order they have in the list
KeepsConflictOrder(list, f) ==
    \A i, j \in 1..Len(list) :
        (i < j /\ ConflictingEntries(list[f[i]], list[f[j]])) => f[i] < f[j]

----------------------------------------------------------------------------
\* C21: the tree built from a list of paths has the same names, node types
\* and nesting as the tree built from any permutation of the list that keeps
\* the relative order of the entries in file/folder conflict with one
\* another (so from every permutation, when no two entries conflict), and
\* inserting a path that was inserted before leaves names, types and nesting
\* as they are.
C21_OrderOnlyMattersForConflicts ==
    Inserted =>
        /\ \A f \in Orders(treeLast.n) :
              KeepsConflictOrder(treeLast.inserted, f) =>
                  Shape(BuildFrom(EmptyTree, Permuted(treeLast.inserted, f)))
                      = Shape(tree)
        /\ (\E i \in 1..(treeLast.n - 1) : treeLast.inserted[i] = treeLast.filePath) =>
              Shape(tree) = Shape(treeLast.before)

\* three paths were inserted, two of them siblings under a folder that the
\* third has as a file; an order other than the one taken keeps the
\* conflicting entries in order
C21_Witness ==
    /\ treeLast.n = 3
    /\ {PathDB, PathDE, PathD} = {treeLast.inserted[i] : i \in 1..3}
    /\ \E f \in Orders(3) :
          /\ f # [i \in 1..3 |-> i]
          /\ KeepsConflictOrder(treeLast.inserted, f)

----------------------------------------------------------------------------
(* Vocabulary of the registry properties                                   *)

\* the ids of the sources in a list
IdsOf(dirs) == {dirs[i].id : i \in 1..Len(dirs)}

\* the first source of a list, or none
FirstOrNone(dirs) == IF dirs = <<>> THEN NoId ELSE dirs[1].id

\* the list without its i-th element
Without(dirs, i) == SubSeq(dirs, 1, i - 1) \o SubSeq(dirs, i + 1, Len(dirs))

\* the last handler added, removed or selected a source
Added == regLast.op = "add"
Removed == regLast.op = "remove"
Selected == regLast.op = "select"

----------------------------------------------------------------------------
\* C14: in every state (before and after the load, between handlers, with
\* fetches and ingestions in flight) the selected id is unset or the id of a
\* listed source, and it is unset only when the list is empty.
C14_SelectionValid ==
    /\ selectedDirectoryId = NoId \/ selectedDirectoryId \in IdsOf(directories)
    /\ selectedDirectoryId = NoId => directories = <<>>

\* the selected source was removed while a fetch or an ingestion was in flight
C14_Witness ==
    /\ Removed
    /\ regLast.selBefore = regLast.id
    /\ tasks # {}
    /\ directories # <<>>
    /\ selectedDirectoryId \in IdsOf(directories)

----------------------------------------------------------------------------
\* C15: after a removal the list is the list before without the removed
\* source, in the same order; the selection is the first remaining source (or
\* none) if the removed source was selected, and unchanged otherwise.
C15_RemoveFallsBackToFirst ==
    Removed =>
        /\ \E i \in 1..Len(regLast.dirsBefore) :
              /\ regLast.dirsBefore[i].id = regLast.id
              /\ directories = Without(regLast.dirsBefore, i)
        /\ selectedDirectoryId =
              IF regLast.selBefore = regLast.id THEN FirstOrNone(directories)
              ELSE regLast.selBefore

\* the selected source was removed and two or more remain
C15_Witness ==
    /\ Removed
    /\ regLast.selBefore = regLast.id
    /\ Len(directories) >= 2
    /\ selectedDirectoryId = directories[1].id

----------------------------------------------------------------------------
\* C16: after an add the list is the list before followed by the new source,
\* whose id no other source has, and the new source is selected.
C16_AddAppendsAndSelects ==
    Added =>
        /\ Len(directories) = Len(regLast.dirsBefore) + 1
        /\ SubSeq(directories, 1, Len(regLast.dirsBefore)) = regLast.dirsBefore
        /\ directories[Len(directories)].id = regLast.id
        /\ regLast.id \notin IdsOf(regLast.dirsBefore)
        /\ selectedDirectoryId = regLast.id

\* a source was added to a list that had sources, one of them selected
C16_Witness ==
    /\ Added
    /\ Len(regLast.dirsBefore) >= 2
    /\ regLast.selBefore \in IdsOf(regLast.dirsBefore)
    /\ selectedDirectoryId = regLast.id

----------------------------------------------------------------------------
\* C17: right after the load the list is the persisted list and the selection
\* is the persisted id if a loaded source has it, else the first loaded
\* source, else none.
C17_LoadFallbackOrder ==
    phase = "loaded" =>
        /\ directories = LoadedDirs(storage.directories)
        /\ selectedDirectoryId =
              IF \E id \in IdsOf(directories) : ToStorageString(id) = storage.selectedId
              THEN CHOOSE id \in IdsOf(directories) :
                       ToStorageString(id) = storage.selectedId
              ELSE FirstOrNone(directories)

\* the persisted id is that of the second loaded source
C17_Witness ==
    /\ phase = "loaded"
    /\ Len(directories) = 2
    /\ storage.selectedId = ToStorageString(directories[2].id)
    /\ selectedDirectoryId = directories[2].id

----------------------------------------------------------------------------
\* C18: a handler that adds, removes or selects a source writes the state to
\* the persistent stores (itself, or through the completion it leaves
\* pending) and sends no network request.
C18_MutationSavesWithoutNetwork ==
    (Added \/ Removed \/ Selected) =>
        /\ regLast.saved \/ TasksOf(regLast.id) # {}
        /\ ~regLast.fetched

----------------------------------------------------------------------------
(* Vocabulary of the apply properties                                      *)

\* the last call of applyPatch has returned and no other is in flight
ApplyReturned == apply.pc = "idle" /\ apply.outcome # "none"

\* the preconditions, as the call found them
NoSourceSelected == apply.sel = NoId
SourceIsLocal ==
    HasDir(apply.dirs, apply.sel) /\ FindDir(apply.dirs, apply.sel).type = "uploaded"
SourceHasNoRoot ==
    HasDir(apply.dirs, apply.sel) /\ ~Truthy(FindDir(apply.dirs, apply.sel).path)
PatchIsBlank == \A i \in 1..Len(apply.patchArg) : IsSpace(apply.patchArg[i])

\* the answer of the service was received and parsed
AnswerParsed == ApplyReturned /\ apply.outcome \in {"success", "failure"}

\* the service answered with an OK status and a true success flag
ExplicitSuccess ==
    /\ AnswerParsed
    /\ apply.replies[Len(apply.replies)] = "ok"
    /\ apply.data.success = "true"

\* the status line says the patch was applied
ClaimsSuccess(status) ==
    ~status.isError /\ \E n \in 0..(MaxApplied + 1) : status.text = MsgApplied(n)

RECURSIVE LeadingDigits(_)
LeadingDigits(s) ==
    IF s # <<>> /\ IsDigits(<<Head(s)>>) THEN <<Head(s)>> \o LeadingDigits(Tail(s))
    ELSE <<>>

\* the number of files a failure status states as applied: the number in its
\* "(n file(s) might have been partially applied)" part, none stated meaning 0
StatedCount(text) ==
    IF \E i \in 1..Len(text) : text[i] = " ("
    THEN LET i == CHOOSE j \in 1..Len(text) : text[j] = " ("
         IN  ParseInt(LeadingDigits(SubSeq(text, i + 1, Len(text))))
    ELSE 0

----------------------------------------------------------------------------
\* C11: a call of applyPatch that finds no source selected, a local source, a
\* source without root path or a blank patch sends no request and leaves an
\* error status that names the first failing precondition; the four messages
\* differ from one another.
C11_PreconditionsAreLocal ==
    /\ Cardinality({MsgNoSource, MsgUploadedUnsupported, MsgNoValidPath,
                    MsgPatchEmpty}) = 4
    /\ (ApplyReturned /\ (NoSourceSelected \/ SourceIsLocal \/ SourceHasNoRoot
                            \/ PatchIsBlank)) =>
          /\ apply.fetches = <<>>
          /\ apply.reported.isError
          /\ apply.reported.text =
                IF NoSourceSelected THEN MsgNoSource
                ELSE IF SourceIsLocal THEN MsgUploadedUnsupported
                ELSE IF SourceHasNoRoot THEN MsgNoValidPath
                ELSE MsgPatchEmpty

\* applyPatch was called with a patch while a local source was selected
C11_Witness ==
    /\ ApplyReturned
    /\ SourceIsLocal
    /\ ~PatchIsBlank
    /\ apply.fetches = <<>>

----------------------------------------------------------------------------
\* C12: when applyPatch has returned, its status says success only if the
\* service answered with an OK status and a true success flag, and is an error
\* status in every other case.
C12_SuccessOnlyWhenReported ==
    ApplyReturned =>
        /\ ClaimsSuccess(apply.reported) => ExplicitSuccess
        /\ ~ExplicitSuccess => apply.reported.isError

----------------------------------------------------------------------------
\* C13: when the service answered with a failure that lists n applied files,
\* the status applyPatch leaves is an error status that states n.
C13_FailureStatesCount ==
    (AnswerParsed /\ ~ExplicitSuccess /\ apply.data.applied >= 0) =>
        /\ apply.reported.isError
        /\ StatedCount(apply.reported.text) = apply.data.applied

----------------------------------------------------------------------------
(* Vocabulary of the transport property                                    *)

\* the resolver calls that have handed a request to the transport
Transported ==
    {r \in {calls[c] : c \in CallIds} \cup {lastReturn} : r.fetches # <<>>}

\* the transport of the call has returned to the resolver, or thrown
TransportSettled(r) == r.pc \in {"body", "returned"}

\* the URL with the scheme https replaced by http
WithHttpScheme(url) ==
    [i \in 1..Len(url) |-> IF url[i] = "https://" THEN "http://" ELSE url[i]]

\* every entry of the call carries the resolver's message for a thrown fetch
AllNetworkError(r) ==
    \E m \in ThrownMessages :
        \A p \in DOMAIN r.results : r.results[p] = Entry(Null, MsgNetworkError(m))

----------------------------------------------------------------------------
\* C30: a request to a URL that starts with "/" is attempted once, whatever
\* the answer; a request to an absolute URL is attempted a second time exactly
\* when the first attempt threw or was answered with a non-OK status, the
\* second attempt goes to the URL with https replaced by http, and there is
\* never a third; the caller gets what the last attempt gave: its response,
\* or its failure.
C30_FallbackOnlyForAbsolute ==
    \A r \in Transported :
        LET f == r.fetches
            first == f[1].url
        IN  /\ Len(f) \in {1, 2}
            /\ Len(r.replies) <= Len(f)
            /\ first[1] = "/" => Len(f) = 1
            /\ Len(f) = 2 =>
                  /\ first[1] # "/"
                  /\ r.replies[1] \in {"throw", "notok"}
                  /\ f[2].url = WithHttpScheme(first)
            /\ (first[1] # "/" /\ r.replies # <<>> /\ r.replies[1] # "ok") => Len(f) = 2
            /\ TransportSettled(r) =>
                  /\ Len(r.replies) = Len(f)
                  /\ r.pc = "body" => r.replies[Len(f)] \in {"ok", "notok"}
                  /\ r.replies[Len(f)] = "throw" => AllNetworkError(r)

\* the request to https://host/api/files threw, the one to
\* http://host/api/files was answered with a non-OK status, and that answer
\* was handed to the resolver
C30_Witness ==
    /\ Returns
    /\ lastReturn.replies = <<"throw", "notok">>
    /\ lastReturn.fetches[1].url = <<"https://", "host", "/api/files">>
    /\ lastReturn.fetches[2].url = <<"http://", "host", "/api/files">>
    /\ ~AllNetworkError(lastReturn)

----------------------------------------------------------------------------
(* The preview: properties                                                 *)

\* the paths a call of generatePatchPreview that awaits has handed to the
\* resolver
HandedOver(c) ==
    IF calls[c].pc # "idle" THEN calls[c].filePaths ELSE lastReturn.filePaths

\* a name without a leading a/
WithoutA(name) ==
    IF Len(name) >= 2 /\ name[1] = "a" /\ name[2] = "/"
    THEN [i \in 1..(Len(name) - 2) |-> name[i + 2]] ELSE name

\* the old paths of the records of a patch that name an existing file
OldPaths(patches) ==
    {WithoutA(p.oldFileName) : p \in {q \in Range(patches) : q.oldFileName # DevNull}}

\* C22: the paths handed to the resolver are the old paths of the records
\* whose old path is not /dev/null, without a leading a/, each of them once;
\* for the patch of a/foo.txt to b/foo.txt they are foo.txt alone; a call
\* that ends because nothing is required has no such record
C22_RequiredPaths ==
    /\ \A c \in CallIds :
          cycles[c].pc = "awaiting" =>
              /\ Range(HandedOver(c)) = OldPaths(cycles[c].patches)
              /\ Injective(HandedOver(c))
              /\ cycles[c].text = <<"diff foo">> => HandedOver(c) = <<PathFoo>>
    /\ (previewLast.stage = "early" /\ previewStatus.text = MsgSeemsEmpty) =>
          OldPaths(parsePatch(previewLast.text)) = {}

\* a patch that names foo.txt twice, as a/foo.txt and as foo.txt, awaits the
\* resolver with foo.txt alone
C22_Witness ==
    /\ cycles["c1"].pc = "awaiting"
    /\ cycles["c1"].text = <<"diff foo", "diff foo bare">>
    /\ calls["c1"].pc # "idle"
    /\ calls["c1"].filePaths = <<PathFoo>>

\* a name without a leading b/
WithoutB(name) ==
    IF Len(name) >= 2 /\ name[1] = "b" /\ name[2] = "/"
    THEN [i \in 1..(Len(name) - 2) |-> name[i + 2]] ELSE name

\* the lookup key of a record: its old path unless that is /dev/null, else
\* its new path, without the a/ or b/ marker
LookupKey(p) ==
    IF p.oldFileName # DevNull THEN WithoutA(p.oldFileName) ELSE WithoutB(p.newFileName)

\* the call of generatePatchPreview that ran last has rendered
PreviewRendered == previewLast.stage = "rendered"

\* the records of the patch of that call
RenderedPatches == parsePatch(previewLast.text)

\* the map the resolver handed to that call
Resolutions == previewLast.returned.results

\* the outcome of the resolution of a key: "error" (a message that does not
\* mean 'not found'), "ok" (a content), else "missing" (no resolution, a
\* message that means 'not found', or neither content nor message)
OutcomeOf(key) ==
    IF key \notin DOMAIN Resolutions THEN "missing"
    ELSE IF Truthy(Resolutions[key].error) /\ ~MeansNotFound(Resolutions[key].error)
    THEN "error"
    ELSE IF Resolutions[key].content # Null THEN "ok"
    ELSE "missing"

\* C23: the block of each record of the patch is that of its lookup key; an
\* error outcome whose message does not mean 'not found' gives the note
\* "error" and lists the key among the files with errors; no resolution or a
\* not-found one gives "new file" when the old path is /dev/null, "deletion"
\* when the new path is, "warning" otherwise; a content gives no note; only
\* keys with the note "error" are listed
C23_Classification ==
    PreviewRendered =>
        /\ Len(patchPreview) = Len(RenderedPatches)
        /\ \A i \in 1..Len(RenderedPatches) :
              LET p == RenderedPatches[i]
                  key == LookupKey(p)
                  listed == key \in Range(previewLast.errors)
              IN  /\ patchPreview[i].file = key
                  /\ OutcomeOf(key) = "error" =>
                        patchPreview[i].note = "error" /\ listed
                  /\ OutcomeOf(key) = "missing" =>
                        /\ patchPreview[i].note =
                              IF p.newFileName = DevNull THEN "deletion"
                              ELSE IF p.oldFileName = DevNull THEN "new file"
                              ELSE "warning"
                        /\ ~listed
                  /\ OutcomeOf(key) = "ok" =>
                        patchPreview[i].note = "none" /\ ~listed

\* a patch that creates bar.txt and changes foo.txt was rendered after the
\* server answered for foo.txt with a message that means 'not found': a new
\* file and a warning
C23_Witness ==
    /\ PreviewRendered
    /\ previewLast.text = <<"diff", "diff foo">>
    /\ PathFoo \in DOMAIN Resolutions
    /\ Resolutions[PathFoo].content = Null
    /\ MeansNotFound(Resolutions[PathFoo].error)
    /\ patchPreview = <<[file |-> PathBar, note |-> "new file"],
                        [file |-> PathFoo, note |-> "warning"]>>

\* the call of generatePatchPreview that ran last found a usable source and a
\* patch that parses, and has ended
PreviewEnded ==
    \/ PreviewRendered
    \/ previewLast.stage = "early" /\ previewStatus.text = MsgSeemsEmpty

\* the patch of that call holds a record that creates bar.txt
CreatesBar ==
    \E p \in Range(RenderedPatches) :
        p.oldFileName = DevNull /\ WithoutB(p.newFileName) = PathBar

\* C24: the preview of every patch that holds a record creating bar.txt, a
\* patch of such records alone included, has a block for bar.txt with the
\* note "new file", and bar.txt is neither among the files with errors nor in
\* the FailureSet
C24_CreationShown ==
    (PreviewEnded /\ CreatesBar) =>
        /\ \E i \in 1..Len(patchPreview) :
              patchPreview[i] = [file |-> PathBar, note |-> "new file"]
        /\ PathBar \notin Range(previewLast.errors)
        /\ PathBar \notin failedFiles

\* the same for the patches that also hold a record whose file is resolved
C24_CreationShownWhenResolved ==
    (PreviewRendered /\ CreatesBar) =>
        /\ \E i \in 1..Len(patchPreview) :
              patchPreview[i] = [file |-> PathBar, note |-> "new file"]
        /\ PathBar \notin Range(previewLast.errors)
        /\ PathBar \notin failedFiles

\* the aggregate status the preview shows: "errors" (generated with errors),
\* "failed" (generated, some fetches failed), "success", or "other"
AggregateStatus ==
    IF previewStatus = Status(MsgPreviewSuccess, FALSE) THEN "success"
    ELSE IF previewStatus = Status(MsgSomeFailed, TRUE) THEN "failed"
    ELSE IF \E n \in 1..Len(patchPreview) : previewStatus = Status(MsgWithErrors(n), TRUE)
    THEN "errors"
    ELSE "other"

\* a file of the preview has the note "error"
SomeErrorNote == \E i \in 1..Len(patchPreview) : patchPreview[i].note = "error"

\* the three-way rule of the aggregate status
StatusByRule ==
    IF SomeErrorNote THEN "errors"
    ELSE IF previewLast.returned.failed # {} THEN "failed"
    ELSE "success"

\* the resolution of the i-th path handed to the resolver failed: the store
\* lookup threw; or the batch request failed as a whole (transport, status,
\* body, or an answer that is not a success with files); or the answer holds
\* no result for the path, or a result that is no success and whose message
\* does not mean 'not found'
FailedResolutionAt(i) ==
    LET r == previewLast.returned
    IN  IF r.type = "uploaded" THEN i \in r.threw
        ELSE IF ~(r.data.success /\ r.data.hasFiles) THEN TRUE
        ELSE LET given == r.data.files[r.absPaths[i]]
             IN  ~given.present \/ (~given.success /\ ~MeansNotFound(given.error))

\* C25: the aggregate status of a rendered preview is "generated with
\* errors" if a file has the note "error", else "generated, some fetches
\* failed" if the FailureSet the resolver produced is not empty, else
\* "success"; so it is "success" only if no file has the note "error" and no
\* requested path failed resolution
C25_AggregateStatus ==
    PreviewRendered =>
        /\ AggregateStatus = StatusByRule
        /\ AggregateStatus = "success" =>
              /\ ~SomeErrorNote
              /\ \A i \in 1..Len(previewLast.returned.filePaths) : ~FailedResolutionAt(i)

\* the three-way rule alone
C25_StatusFollowsRule == PreviewRendered => AggregateStatus = StatusByRule

\* the call of generatePatchPreview that ran last was given a blank patch
BlankPatch == previewLast.stage # "none" /\ ~Truthy(Trim(previewLast.text))

\* it was given a patch that parses and from which no path has to be
\* resolved, with a source selected
NothingToResolve ==
    /\ previewLast.stage # "none"
    /\ HasDir(directories, selectedDirectoryId)
    /\ RenderedPatches # <<>>
    /\ OldPaths(RenderedPatches) = {}

\* it ended with an empty body and started no resolution: the calls that
\* await the resolver are those of older calls
EndedWithoutResolution ==
    /\ previewLast.stage = "early"
    /\ patchPreview = <<>>
    /\ \A c \in CallIds : cycles[c].pc = "awaiting" => cycles[c].superseded

\* C26: a preview of a blank patch, or of a patch from which no path has to
\* be resolved, ends with an empty body and a status that is not flagged as
\* an error, and performs no resolution
C26_NothingToPreview ==
    (BlankPatch \/ NothingToResolve) =>
        EndedWithoutResolution /\ ~previewStatus.isError

\* the same without the flag of the status when no path has to be resolved
C26_EndsWithoutResolution ==
    /\ BlankPatch => EndedWithoutResolution /\ ~previewStatus.isError
    /\ NothingToResolve =>
          EndedWithoutResolution /\ previewStatus = Status(MsgSeemsEmpty, TRUE)

\* the callback of the debounce timer runs: a preview cycle starts
CycleStarts == quiet'.fired = quiet.fired + 1

\* C27: a preview cycle starts only when the full wait has passed since the
\* last trigger, and it uses the input current at that moment; after a
\* trigger at most one cycle starts until the next trigger, none while the
\* timer is pending; and a pending timer leads to the one cycle of its burst
C27_Debounce ==
    /\ [](quiet.fired <= 1 /\ (debounceTimer => quiet.fired = 0))
    /\ [][CycleStarts =>
            /\ quiet.since >= DebounceWait
            /\ patchContent' = patchInput
            /\ previewLast'.text = patchInput
            /\ previewStatus' = EarlyStatus(directories, selectedDirectoryId, patchInput)
         ]_vars
    /\ (debounceTimer ~> (quiet.fired = 1))

\* a burst of three triggers has started its one cycle, a full wait after the
\* last of them, with the patch the textarea then held
C27_Witness ==
    /\ quiet.burst = MaxBurst
    /\ quiet.fired = 1
    /\ quiet.since >= DebounceWait
    /\ ~debounceTimer
    /\ patchInput = <<"diff">>
    /\ previewLast.text = patchInput
    /\ patchContent = patchInput

\* nothing is pending: no timer, no resolver call, no preview that awaits
Quiescent ==
    /\ ~debounceTimer
    /\ lastReturn.pc = "idle"
    /\ \A c \in CallIds : calls[c].pc = "idle" /\ cycles[c].pc = "idle"

\* C28: a call of generatePatchPreview that resumes renders its blocks and
\* sets its final status whether or not a newer call has started since: what
\* is shown is the preview of the patch that call was given
C28_StaleRenderReplaces ==
    PreviewRendered =>
        /\ Len(patchPreview) = Len(RenderedPatches)
        /\ \A i \in 1..Len(patchPreview) :
              patchPreview[i].file = LookupKey(RenderedPatches[i])
        /\ AggregateStatus = StatusByRule

\* the preview of foo.txt was started and then that of d/foo.txt; the older
\* one finished last, and with nothing pending the preview shows foo.txt
\* while the textarea holds the patch of d/foo.txt
C28_Witness ==
    /\ Quiescent
    /\ PreviewRendered
    /\ previewLast.superseded
    /\ previewLast.text = <<"diff foo">>
    /\ patchInput = <<"diff d/foo">>
    /\ patchContent = patchInput
    /\ Len(patchPreview) = 1
    /\ patchPreview[1].file = PathFoo

\* loadStateFromLocalStorage has just run
Loaded == phase = "loaded" /\ regLast.op = "load"

\* C29: the FailureSet does not survive a reload: after a save followed by a
\* load, the FailureSet in memory is empty
C29_FailureSetNotReloaded == Loaded => failedFiles = {}

\* what the load leaves in memory is the FailureSet that was saved
C29_FailureSetRestored == Loaded => failedFiles = storage.failedFiles


----------------------------------------------------------------------------
(* The trees of the sources: properties                                    *)

\* the tree of the source with the given id, Keep if there is no such source
TreeOf(dirs, id) == IF HasDir(dirs, id) THEN FindDir(dirs, id).tree ELSE Keep

\* the step is the completion of an ingestion of the source with the given id
IngestionCompletes(id) ==
    \E t \in tasks \ tasks' : t.dirId = id /\ t.kind \in {"zip", "folder"}

LocalFetched == regLast.op = "fetchLocal"

\* C31: within a session, a directory fetch for a local source sends no
\* request, returns true and leaves the tree of the source as it was; and the
\* tree of a local source that stays in the registry changes only in the step
\* that completes an ingestion of that source.
C31_LocalTreeNotFetched ==
    /\ [](LocalFetched =>
            /\ regLast.returned = "true"
            /\ ~regLast.fetched
            /\ TreeOf(directories, regLast.id) = TreeOf(regLast.dirsBefore, regLast.id))
    /\ [][(LocalFetched' /\ regLast' # regLast) => tasks' = tasks]_vars
    /\ [][\A d \in Range(directories) :
            (d.type = "uploaded" /\ HasDir(directories', d.id)
               /\ TreeOf(directories', d.id) # d.tree)
            => IngestionCompletes(d.id)]_vars

\* a local source whose ingestion failed was fetched: its error is gone, its
\* emptied tree is still there
C31_Witness ==
    /\ LocalFetched
    /\ FindDir(regLast.dirsBefore, regLast.id).error # Undefined
    /\ FindDir(directories, regLast.id).error = Undefined
    /\ FindDir(directories, regLast.id).tree = NoEntries
    /\ tasks = {}


----------------------------------------------------------------------------
\* the last step was the end of a directory fetch for a server source that
\* is still registered: its answer was handled, or it had no path to ask for
RemoteFetchEnded ==
    /\ regLast.op \in {"done", "update"}
    /\ regLast.returned # "none"
    /\ HasDir(regLast.dirsBefore, regLast.id)
    /\ HasDir(directories, regLast.id)

FetchedDir == FindDir(directories, regLast.id)

FetchSucceeded ==
    /\ regLast.returned = "true"
    /\ \E data \in DirAnswers :
          /\ FetchedDir.tree = data.tree
          /\ FetchedDir.path = data.root
    /\ FetchedDir.error = Undefined

FetchFailed ==
    /\ regLast.returned = "false"
    /\ Truthy(FetchedDir.error)
    /\ FetchedDir.error # <<>>

\* C32: a directory fetch for a server source ends either with true returned,
\* the tree and the path of the source those of the answer and no lastError,
\* or with false returned and a non-empty lastError; in both cases the stores
\* hold the registry as it then is.
C32_RemoteFetchEnds ==
    RemoteFetchEnded =>
        /\ FetchSucceeded \/ FetchFailed
        /\ ~(FetchSucceeded /\ FetchFailed)
        /\ storage.directories = SavedDirs(directories)
        /\ storage.selectedId = ToStorageString(selectedDirectoryId)

\* a source whose last fetch had failed is fetched again with success: the
\* emptied tree and the typed path are replaced by those of the answer
C32_Witness ==
    /\ RemoteFetchEnded
    /\ FetchSucceeded
    /\ Truthy(FindDir(regLast.dirsBefore, regLast.id).error)
    /\ FindDir(regLast.dirsBefore, regLast.id).tree = NoEntries
    /\ FindDir(regLast.dirsBefore, regLast.id).path = RootPath
    /\ FetchedDir.tree = ServerTreeNew
    /\ FetchedDir.path = CanonicalRoot

\* a fetch was answered with status 404: the tree is emptied and the error
\* names the path
C32_FailureReached ==
    /\ RemoteFetchEnded
    /\ FetchFailed
    /\ FetchedDir.tree = NoEntries
    /\ FetchedDir.error = <<"Directory not found: ">> \o RootPath


----------------------------------------------------------------------------
(* The store of uploaded files: properties                                 *)

StoreKeys == {<<dirId, filePath>> : dirId \in StoreIds, filePath \in StorePaths}

\* the entries of the given source in a store
EntriesOf(store, dirId) ==
    {filePath \in StorePaths : GetUploadedFile(store, dirId, filePath) # Null}

\* after a put under (X, p), (X, p) yields the content put and every other
\* pair yields what it yielded before; a get returns what the last put under
\* its own pair stored
PutGetNamespaced ==
    /\ regLast.op = "put" =>
          \A k \in StoreKeys :
              GetUploadedFile(uploadedFiles, k[1], k[2]) =
                 IF k = <<regLast.id, regLast.filePath>>
                 THEN uploadedFiles[DbKey(regLast.id, regLast.filePath)]
                 ELSE GetUploadedFile(regLast.storeBefore, k[1], k[2])
    /\ regLast.op = "get" =>
          regLast.got = GetUploadedFile(uploadedFiles, regLast.id, regLast.filePath)

\* a put under source 2 while source 21 holds an entry under the same path
PutGetReached ==
    /\ regLast.op = "put"
    /\ regLast.id = 2
    /\ regLast.filePath = PathDB
    /\ GetUploadedFile(uploadedFiles, 21, PathDB) = ContentOther
    /\ GetUploadedFile(uploadedFiles, 2, PathDB) = ContentAlpha

\* C33: content put under (X, p) is returned by a get only for (X, p), and
\* after a bulk-clear for X no entry of X is left while the entries of every
\* other source are what they were, also when one id is a prefix of another.
C33_StoreNamespaced ==
    /\ PutGetNamespaced
    /\ regLast.op = "clear" =>
          /\ EntriesOf(uploadedFiles, regLast.id) = {}
          /\ \A dirId \in StoreIds \ {regLast.id}, filePath \in StorePaths :
                GetUploadedFile(uploadedFiles, dirId, filePath) =
                   GetUploadedFile(regLast.storeBefore, dirId, filePath)


----------------------------------------------------------------------------
(* Saving and loading the registry: properties                             *)

\* what loadStateFromLocalStorage would restore from the stores as they are
RestoredDirs == LoadedDirs(storage.directories)
RestoredSelection == LoadSelection(storage.selectedId, RestoredDirs)

\* the last step wrote the state to the stores
JustSaved == regLast.saved

\* C34: a load right after a save restores the sources of the registry in
\* their order, each with its id, kind, root path, display name and
\* lastError and without tree, and restores the selected id.
C34_SaveLoadRoundTrip ==
    JustSaved =>
        /\ Len(RestoredDirs) = Len(directories)
        /\ \A i \in 1..Len(directories) :
              /\ RestoredDirs[i].id = directories[i].id
              /\ RestoredDirs[i].type = directories[i].type
              /\ RestoredDirs[i].path = directories[i].path
              /\ RestoredDirs[i].name = directories[i].name
              /\ RestoredDirs[i].error = directories[i].error
              /\ RestoredDirs[i].tree = Undefined
        /\ RestoredSelection = selectedDirectoryId

\* the saved registry holds a server source with a fetched tree and a
\* canonicalised path, a source with an error, and the selection is not the
\* first source
C34_Witness ==
    /\ JustSaved
    /\ Len(directories) >= 2
    /\ selectedDirectoryId # directories[1].id
    /\ \E i \in 1..Len(directories) :
          /\ directories[i].tree = ServerTreeNew
          /\ directories[i].path = CanonicalRoot
    /\ \E i \in 1..Len(directories) : Truthy(directories[i].error)


----------------------------------------------------------------------------
(* The validation of a preview request: properties                         *)

\* the request fails validation: no source is selected, the selected source
\* is not registered or carries an error, the text is blank or is no patch
ValidationFails(dirs, sel, text) ==
    \/ sel = NoId
    \/ ~HasDir(dirs, sel)
    \/ Truthy(FindDir(dirs, sel).error)
    \/ ~Truthy(Trim(text))
    \/ parsePatch(text) = <<>>

\* the step is a call of generatePatchPreview
PreviewCalled == debounceTimer /\ ~debounceTimer'

\* an id no source has
DanglingId == 77

\* C35: a call of generatePatchPreview whose request fails validation returns
\* without calling the resolver and without touching the network or the store
\* of uploaded files; when it returns the FailureSet is empty and a status is
\* shown.  (A selection that names no registered source does not arise in a
\* session; for it the validation is evaluated on its own.)
C35_ValidationShortCircuits ==
    /\ [][(PreviewCalled
             /\ ValidationFails(directories, selectedDirectoryId, patchInput))
          => /\ calls' = calls
             /\ lastReturn' = lastReturn
             /\ uploadedFiles' = uploadedFiles
             /\ failedFiles' = {}
             /\ previewStatus' # NoStatus
             /\ previewLast'.stage = "early"]_vars
    /\ [](\A text \in ValidationTexts :
             EarlyStatus(directories, DanglingId, text) # NoStatus)

\* the selected source carries an error and the request is refused while an
\* older call of the preview still awaits the resolver
C35_Witness ==
    /\ previewLast.stage = "early"
    /\ previewStatus = Status(MsgPreviewSourceError(MsgDirStatus), TRUE)
    /\ patchContent = <<"diff foo">>
    /\ \E c \in CallIds : cycles[c].pc = "awaiting" /\ calls[c].pc # "idle"
    /\ failedFiles = {}


----------------------------------------------------------------------------
(* Applying a patch: delivery                                              *)

\* C36: a call of applyPatch that passes its preconditions sends the apply
\* request at most once, whatever the endpoint and whatever the response.
C36_ApplyDeliveredOnce == Len(apply.fetches) <= 1

\* the request was answered with a non-OK status and was sent again
ApplySentTwice ==
    /\ Len(apply.fetches) = 2
    /\ apply.replies[1] = "notok"


\* a call of applyPatch that a click on the enabled button started awaits the
\* transport or the body of the response
ApplyPending == apply.pc # "idle" /\ apply.enabled

\* C37: while a call of applyPatch is pending the Apply button is disabled,
\* whatever the user does meanwhile, so that no second call can be started.
C37_ButtonDisabledWhilePending == ApplyPending => applyButtonDisabled

\* the apply request was sent by a click on the enabled button and is not
\* answered, and the button was enabled again by the selection of another
\* server source
ApplyClickableWhilePending ==
    /\ apply.enabled
    /\ apply.pc = "fetching"
    /\ Len(apply.fetches) = 1
    /\ ~applyButtonDisabled
    /\ selectedDirectoryId # apply.sel


----------------------------------------------------------------------------
(* The FailureSet of overlapping previews: properties                      *)

\* the paths the call that rendered last had handed to the resolver, and the
\* FailureSet it read for its final status
OwnPaths == Range(previewLast.returned.filePaths)
FailureSetRead == previewLast.returned.failed

\* a rendered preview does not report success when the resolution of one of
\* its own paths failed
NoSuccessOnOwnFailure ==
    PreviewRendered =>
        ((\E i \in 1..Len(previewLast.returned.filePaths) : FailedResolutionAt(i))
            => AggregateStatus # "success")

\* a rendered preview reads no failed path that it did not request
ListsOnlyOwnFailures == PreviewRendered => FailureSetRead \subseteq OwnPaths

\* C38: with calls of the preview overlapping, the FailureSet a call reads
\* for its final status is the one its own resolution produced: it does not
\* report success when one of its own paths failed, and the failed paths it
\* reads are paths it requested.
C38_OwnFailureSet == NoSuccessOnOwnFailure /\ ListsOnlyOwnFailures

\* the preview of d/foo.txt resolved its path and still ends with 'some
\* fetches failed': the FailureSet holds foo.txt of the older preview
ForeignFailureRead ==
    /\ PreviewRendered
    /\ previewLast.text = <<"diff d/foo">>
    /\ OwnPaths = {PathDFoo}
    /\ FailureSetRead = {PathFoo}
    /\ AggregateStatus = "failed"


----------------------------------------------------------------------------
(* The tree and the contents of an ingestion: properties                   *)

\* the paths of the file nodes of a tree
FileNodePaths(t) == {t[k].path : k \in {x \in DOMAIN t : t[x].type = "file"}}

\* C39: every path under which the builder keeps a content is the path of a
\* file node of the tree it built, for every list of entries.
C39_StoredPathsAreFileNodes == treeLast.files \subseteq FileNodePaths(tree)

\* an archive holds d/b.txt and d/b.txt/c.txt: in the sorted order of the
\* entries the file d/b.txt is placed first, the second entry finds a file
\* where it needs a folder and is left out of the tree, and its content is
\* kept all the same
ContentWithoutNode ==
    /\ treeLast.inserted = <<PathDB, PathDBC>>
    /\ treeLast.files = {PathDB, PathDBC}
    /\ FileNodePaths(tree) = {PathDB}

\* without conflicting entries the two agree
ContentWithNodes ==
    /\ treeLast.inserted = <<PathA, PathDB, PathDE>>
    /\ treeLast.files = {PathA, PathDB, PathDE}
    /\ FileNodePaths(tree) = treeLast.files


----------------------------------------------------------------------------
(* The end of an ingestion: properties                                     *)

\* the last step was the end of an ingestion of a local source that is still
\* registered
IngestionEnded ==
    /\ regLast.op = "done"
    /\ regLast.returned = "none"
    /\ HasDir(regLast.dirsBefore, regLast.id)
    /\ HasDir(directories, regLast.id)

IngestedDir == FindDir(directories, regLast.id)

\* the tree is the built one, there is no lastError, and the store holds for
\* the source the files that were read and nothing else
IngestionSucceeded ==
    /\ IngestedDir.tree = BuiltTree
    /\ IngestedDir.error = Undefined
    /\ GetUploadedFile(uploadedFiles, regLast.id, PathA) = ContentAlpha
    /\ \A filePath \in StorePaths \ {PathA} :
          GetUploadedFile(uploadedFiles, regLast.id, filePath) = Null

IngestionFailed ==
    /\ Truthy(IngestedDir.error)
    /\ IngestedDir.tree = NoEntries

ReadButFailed ==
    /\ IngestionEnded
    /\ regLast.read
    /\ IngestionFailed
    /\ IngestedDir.error = MsgUploadFailed("zip", MsgIndexNotFound)
    /\ GetUploadedFile(uploadedFiles, regLast.id, PathA) = Null

====
